---- MODULE Spec2Model ----
(***************************************************************************)
(* A model of the open-advocacy backend: the SQL-backed stores (projects,  *)
(* jurisdictions, entities, entity status records), the CRUD handlers that *)
(* write them, the status aggregator of ProjectService and the geocoder.   *)
(*                                                                         *)
(*   Spec             the handlers run one at a time (each is atomic)      *)
(*   SpecUpsert       the status handlers, with notes, over a fixed roster *)
(*   SpecRace         create_status_record requests interleave at awaits   *)
(*   SpecProjectRace  create_project requests interleave with the roster   *)
(*   SpecGeocode      GeocodingService.geocode_address and its backends    *)
(*   SpecContains     the containment test of the in-process geo provider  *)
(*   SpecGeo          stored boundaries and the address lookup of location *)
(*   SpecLookup       EntityService.lookup_entities_by_address             *)
(*   SpecProjects     ProjectService.list_projects over the project store  *)
(*   SpecDistricts    district, entity and jurisdiction CRUD, and imports  *)
(*   SpecReads        the read paths of ProjectService and their queries   *)
(*   SpecReferences   create_status_record beside project and entity CRUD  *)
(*   SpecStartup      startup_event in several application instances       *)
(*   SpecImport       ImportOrchestrator.import_location                   *)
(*   SpecDistrictImport  DistrictImporter.import_data and its summary      *)
(*   SpecUsers        update_user_role requests interleave at awaits       *)
(***************************************************************************)
EXTENDS Integers, FiniteSets, Sequences, TLC

\* ------------------------------------------------------------ bounds

MaxJurisdictions == 2
MaxEntities == 2
MaxProjects == 2
MaxRecords == 2
MaxRequests == 2
MaxResults == 1
MaxAddresses == 2
MaxCalls == 2
MaxDistricts == 2
MaxListCalls == 1
MaxImportRows == 2
MaxInstances == 2
MaxSteps == 2
MaxUsers == 3

IdPool(prefix) ==
    CASE prefix = "j" -> <<"j1", "j2", "j3", "j4">>
      [] prefix = "e" -> <<"e1", "e2", "e3", "e4">>
      [] prefix = "p" -> <<"p1", "p2", "p3", "p4">>
      [] prefix = "r" -> <<"r1", "r2", "r3", "r4">>
      [] prefix = "a" -> <<"a1", "a2", "a3", "a4">>
      [] prefix = "d" -> <<"d1", "d2", "d3", "d4">>
      [] prefix = "s" -> <<"step1", "step2", "step3", "step4">>
      [] prefix = "u" -> <<"u1", "u2", "u3", "u4">>

JurisdictionIds == {IdPool("j")[i] : i \in 1..MaxJurisdictions}
EntityIds == {IdPool("e")[i] : i \in 1..MaxEntities}
ProjectIds == {IdPool("p")[i] : i \in 1..MaxProjects}
RecordIds == {IdPool("r")[i] : i \in 1..MaxRecords}
DistrictIds == {IdPool("d")[i] : i \in 1..MaxDistricts}

\* SQL NULL / Python None, and a field that the request body left out
\* (a field missing from model_fields_set, dropped by exclude_unset=True).
NULL == "NULL"
UNSET == "UNSET"

\* ------------------------------------------------------------ schema

\* class EntityStatus(str, Enum)
EntityStatus ==
    {"solid_approval", "leaning_approval", "neutral",
     "leaning_disapproval", "solid_disapproval"}

\* EntityStatusRecord.status: EntityStatus = EntityStatus.NEUTRAL (pydantic)
PYDANTIC_STATUS_DEFAULT == "neutral"

\* status = Column(String(50), nullable=False, default="unknown") (ORM)
ORM_STATUS_DEFAULT == "unknown"

Notes == {"n1"}

\* def list(self, skip: int = 0, limit: int = 100)
LIST_DEFAULT_LIMIT == 100

\* class Settings(BaseSettings): the fields the handlers read.  The geocoder
\* fields are None unless the environment sets them.
Settings ==
    [DATABASE_PROVIDER : {"sqlite", "postgres"},
     GEOCODING_SERVICE : {NULL, "google"},
     GEOCODING_API_KEY : {NULL, "key"}]

\* The settings of a deployment that leaves the geocoder at its defaults;
\* the store's handlers read DATABASE_PROVIDER only.
StoreSettings ==
    {s \in Settings : s.GEOCODING_SERVICE = NULL /\ s.GEOCODING_API_KEY = NULL}

VARIABLES
    settings,           \* app.core.config.settings, read once at import
    jurisdictions,      \* table jurisdictions: the set of ids
    districts,          \* table districts: rows [id, jurisdiction_id, code]
    boundaries,         \* the boundary columns: rows [id, boundary], id the
                        \*   owner's (a district's or a jurisdiction's)
    entities,           \* table entities: rows [id, jurisdiction_id]
    projects,           \* table projects: rows [id, jurisdiction_id]
    status_records,     \* table entity_status_records:
                        \*   rows [id, entity_id, project_id, status, notes]
    users,              \* table users: rows [id, email, role, group_id]
    files,              \* the paths that exist in the file system
    requests            \* the in-flight requests, by slot

storeVars == <<jurisdictions, entities, projects, status_records>>
vars == <<settings, jurisdictions, districts, boundaries, entities, projects,
          status_records, users, files, requests>>

\* ------------------------------------------------------------ storage

\* The SQLite engine is opened without PRAGMA foreign_keys, so SQLite does
\* not enforce the ForeignKey columns; PostgreSQL does.
ForeignKeysEnforced == settings.DATABASE_PROVIDER = "postgres"

Ids(rows) == {r.id : r \in rows}

Row(rows, id) == CHOOSE r \in rows : r.id = id

\* SQLProvider._to_pydantic on an entity_status_records row:
\* EntityStatusRecord.model_validate raises ValidationError when the stored
\* status is no member of EntityStatus.
_to_pydantic_ok(row) == row.status \in EntityStatus

\* SQLProvider.list(): SELECT ... OFFSET 0 LIMIT 100 without ORDER BY: the
\* possible results are the row sets of at most LIST_DEFAULT_LIMIT rows.
SQLProvider_list(rows) ==
    IF Cardinality(rows) <= LIST_DEFAULT_LIMIT
    THEN {rows}
    ELSE {s \in SUBSET rows : Cardinality(s) = LIST_DEFAULT_LIMIT}

\* SQLProvider.filter(jurisdiction_id=value) on the entities table
\* (`column == None` is rendered IS NULL, and the column is NOT NULL).
SQLProvider_filter(entity_rows, jurisdiction_id) ==
    {e \in entity_rows : e.jurisdiction_id = jurisdiction_id}

\* DatabaseProvider.filter_multiple(filters={"project_id": p},
\* in_filters={"entity_id": ids}): the rows matching all the criteria.
filter_multiple(rows, project_id, entity_ids) ==
    {r \in rows : r.project_id = project_id /\ r.entity_id \in entity_ids}

\* ------------------------------------------------------------ SQLProvider

\* uuid4() for a new row of a table: an id no row of the table has.  The
\* ids are interchangeable, so the model takes the first unused one of the
\* pool (none when the pool is used up, which bounds the table).
uuid4(prefix, used, max) ==
    LET free == {i \in 1..max : IdPool(prefix)[i] \notin used}
    IN  IF free = {} THEN {}
        ELSE {IdPool(prefix)[CHOOSE i \in free : \A k \in free : i <= k]}

\* The bodies a client can send to the status handlers (EntityStatusRecord):
\* entity_id and project_id are required, status and notes may be left out.
\* The id is always left to its default.
StatusBodies(notes) ==
    [entity_id : EntityIds,
     project_id : ProjectIds,
     status : EntityStatus \cup {UNSET},
     notes : notes]

StatusRequests == StatusBodies({UNSET})

\* The constraints the database checks at commit on an entity_status_records
\* row: the primary key, and the foreign keys where they are enforced.
StatusRowAccepted(others, row) ==
    /\ row.id \notin Ids(others)
    /\ ForeignKeysEnforced =>
          /\ row.entity_id \in Ids(entities)
          /\ row.project_id \in Ids(projects)

\* SQLProvider.create on entity_status_records: the row built from
\* model_dump(exclude_unset=True), the columns left out taking the ORM
\* defaults (id: a fresh uuid4, status: "unknown", notes: NULL).
NewStatusRow(id, req) ==
    [id |-> id,
     entity_id |-> req.entity_id,
     project_id |-> req.project_id,
     status |-> IF req.status = UNSET THEN ORM_STATUS_DEFAULT ELSE req.status,
     notes |-> IF req.notes = UNSET THEN NULL ELSE req.notes]

\* The tables SQLProvider.create can leave behind.  The row is committed
\* before _to_pydantic validates it, so a row that fails validation stays.
SQLProvider_create(rows, req) ==
    {IF StatusRowAccepted(rows, NewStatusRow(id, req))
     THEN rows \cup {NewStatusRow(id, req)}
     ELSE rows : id \in uuid4("r", Ids(rows), MaxRecords)}

\* SQLProvider.update on entity_status_records: every field of
\* model_dump(exclude_unset=True) is set on the row, the others are kept.
UpdatedStatusRow(old, req) ==
    [id |-> old.id,
     entity_id |-> req.entity_id,
     project_id |-> req.project_id,
     status |-> IF req.status = UNSET THEN old.status ELSE req.status,
     notes |-> IF req.notes = UNSET THEN old.notes ELSE req.notes]

SQLProvider_update(rows, id, req) ==
    IF id \notin Ids(rows)
    THEN rows
    ELSE LET old == Row(rows, id)
             new == UpdatedStatusRow(old, req)
         IN  IF StatusRowAccepted(rows \ {old}, new)
             THEN (rows \ {old}) \cup {new}
             ELSE rows

\* SQLProvider.delete
SQLProvider_delete(rows, id) == {r \in rows : r.id # id}

\* ------------------------------------------------------------ status aggregator

\* class StatusDistribution(BaseModel): every field defaults to 0
StatusDistribution ==
    [solid_approval |-> 0, leaning_approval |-> 0, neutral |-> 0,
     leaning_disapproval |-> 0, solid_disapproval |-> 0, unknown |-> 0,
     total |-> 0]

IncrementBucket(d, status) ==
    CASE status = "solid_approval" -> [d EXCEPT !.solid_approval = @ + 1]
      [] status = "leaning_approval" -> [d EXCEPT !.leaning_approval = @ + 1]
      [] status = "leaning_disapproval" -> [d EXCEPT !.leaning_disapproval = @ + 1]
      [] status = "solid_disapproval" -> [d EXCEPT !.solid_disapproval = @ + 1]
      [] OTHER -> [d EXCEPT !.unknown = @ + 1]

\* ApplyStatus with a defect: the neutral count is not decremented for a non-neutral status.
ApplyStatus_KeepNeutral(distribution, status) ==
    IF status = "neutral"
    THEN distribution
    ELSE IncrementBucket(distribution, status)

\* ApplyStatus with a defect: an explicit neutral record is processed like any other status.
ApplyStatus_NoContinue(distribution, status) ==
    IncrementBucket([distribution EXCEPT !.neutral = @ - 1], status)

\* The body of the loop over entity_statuses.items(): one explicit status.
ApplyStatus(distribution, status) ==
    IF status = "neutral"
    THEN distribution
    ELSE IncrementBucket([distribution EXCEPT !.neutral = @ - 1], status)

RECURSIVE ProcessStatuses(_, _, _)
ProcessStatuses(distribution, entity_statuses, todo) ==
    IF todo = {}
    THEN distribution
    ELSE LET entity_id == CHOOSE e \in todo : TRUE
         IN  ProcessStatuses(ApplyStatus(distribution, entity_statuses[entity_id]),
                             entity_statuses, todo \ {entity_id})

\* {record.entity_id: record.status for record in status_records}: a later
\* record of the list replaces an earlier one of the same entity, and the
\* list comes in the order of a SELECT without ORDER BY, so every choice of
\* one record per entity is a possible mapping.
EntityStatusMaps(records) ==
    LET ids == {r.entity_id : r \in records}
    IN  {f \in [ids -> {r.status : r \in records}] :
            \A e \in ids : \E r \in records : r.entity_id = e /\ r.status = f[e]}

\* ProjectService.calculate_status_distribution_with_neutrals, for one
\* mapping of the entities to their explicit statuses.
calculate_status_distribution_with_neutrals(entity_statuses, total_entity_count) ==
    ProcessStatuses(
        [StatusDistribution EXCEPT !.neutral = total_entity_count,
                                   !.total = total_entity_count],
        entity_statuses, DOMAIN entity_statuses)

\* What a call can end with: a returned value, or a raised error.
Returned(value) == [error |-> NULL, value |-> value]
Raised(error) == [error |-> error, value |-> StatusDistribution]

\* project_status_records with a defect: the records are not restricted to the jurisdiction's entities.
project_status_records_AnyEntity(records, project_id, entity_ids) ==
    {r \in records : r.project_id = project_id}

\* The status records read for a project and its jurisdiction's entities.
project_status_records(records, project_id, entity_ids) ==
    filter_multiple(records, project_id, entity_ids)

\* ProjectService.get_project_status_distribution(project_id) on the tables
\* given: the set of the outcomes the call can have.
DistributionOutcomes(project_rows, entity_rows, records, project_id) ==
    IF project_id \notin Ids(project_rows)
    THEN {Returned(StatusDistribution)}
    ELSE LET project == Row(project_rows, project_id)
             jurisdiction_entities ==
                 SQLProvider_filter(entity_rows, project.jurisdiction_id)
             total_entities == Cardinality(jurisdiction_entities)
             entity_ids == Ids(jurisdiction_entities)
             found == project_status_records(records, project_id, entity_ids)
         IN  IF jurisdiction_entities = {}
             THEN {Returned(StatusDistribution)}
             ELSE IF \E r \in found : ~_to_pydantic_ok(r)
             THEN {Raised("ValidationError")}
             ELSE {Returned(calculate_status_distribution_with_neutrals(
                                f, total_entities)) : f \in EntityStatusMaps(found)}

get_project_status_distribution(project_id) ==
    DistributionOutcomes(projects, entities, status_records, project_id)

\* ------------------------------------------------------------ status handlers

\* create_status_record with a defect: the project and the entity are not
\* looked up before the record is stored.
create_status_record_Unverified(req) ==
    /\ UNCHANGED <<settings, users, files, districts, boundaries, jurisdictions, entities, projects, requests>>
    /\ \E existing_records \in SQLProvider_list(status_records) :
          IF \E r \in existing_records : ~_to_pydantic_ok(r)
          THEN UNCHANGED status_records
          ELSE LET matching ==
                     {record \in existing_records :
                         /\ record.entity_id = req.entity_id
                         /\ record.project_id = req.project_id}
               IN  IF matching # {}
                   THEN \E record \in matching :
                          status_records' =
                              SQLProvider_update(status_records, record.id, req)
                   ELSE status_records' \in SQLProvider_create(status_records, req)

\* StatusService.create_status_record (and the POST /api/status route, which
\* repeats it): a handler that raises leaves the tables as they are.
create_status_record(req) ==
    /\ UNCHANGED <<settings, users, files, districts, boundaries, jurisdictions, entities, projects, requests>>
    /\ IF req.project_id \notin Ids(projects) \/ req.entity_id \notin Ids(entities)
       THEN UNCHANGED status_records               \* Project / Entity not found
       ELSE \E existing_records \in SQLProvider_list(status_records) :
              IF \E r \in existing_records : ~_to_pydantic_ok(r)
              THEN UNCHANGED status_records        \* list() raises ValidationError
              ELSE LET matching ==
                         {record \in existing_records :
                             /\ record.entity_id = req.entity_id
                             /\ record.project_id = req.project_id}
                   IN  IF matching # {}
                       THEN \E record \in matching :
                              status_records' =
                                  SQLProvider_update(status_records, record.id, req)
                       ELSE status_records' \in SQLProvider_create(status_records, req)

\* StatusService.update_status_record
update_status_record(record_id, req) ==
    /\ UNCHANGED <<settings, users, files, districts, boundaries, jurisdictions, entities, projects, requests>>
    /\ IF record_id \notin Ids(status_records)
       THEN UNCHANGED status_records               \* returns None
       ELSE IF ~_to_pydantic_ok(Row(status_records, record_id))
       THEN UNCHANGED status_records               \* get() raises ValidationError
       ELSE status_records' = SQLProvider_update(status_records, record_id, req)

\* StatusService.delete_status_record
delete_status_record(record_id) ==
    /\ UNCHANGED <<settings, users, files, districts, boundaries, jurisdictions, entities, projects, requests>>
    /\ IF record_id \notin Ids(status_records)
       THEN UNCHANGED status_records               \* returns False
       ELSE IF ~_to_pydantic_ok(Row(status_records, record_id))
       THEN UNCHANGED status_records               \* get() raises ValidationError
       ELSE status_records' = SQLProvider_delete(status_records, record_id)

\* ------------------------------------------------------------ roster handlers

\* JurisdictionService.create_jurisdiction: the row gets a fresh uuid4.
create_jurisdiction ==
    /\ \E id \in uuid4("j", jurisdictions, MaxJurisdictions) :
          jurisdictions' = jurisdictions \cup {id}
    /\ UNCHANGED <<settings, users, files, districts, boundaries, entities, projects, status_records, requests>>

\* JurisdictionService.delete_jurisdiction.  Session.delete of a parent whose
\* relationships carry no delete cascade sets the children's foreign key to
\* NULL: entities.jurisdiction_id and districts.jurisdiction_id are NOT NULL
\* (the commit fails and nothing changes), projects.jurisdiction_id is
\* nullable.  The row's boundary goes with the row.
delete_jurisdiction(jurisdiction_id) ==
    /\ UNCHANGED <<settings, users, files, districts, entities, status_records, requests>>
    /\ IF \/ jurisdiction_id \notin jurisdictions
          \/ \E e \in entities : e.jurisdiction_id = jurisdiction_id
          \/ \E d \in districts : d.jurisdiction_id = jurisdiction_id
       THEN UNCHANGED <<jurisdictions, projects, boundaries>>
       ELSE /\ jurisdictions' = jurisdictions \ {jurisdiction_id}
            /\ boundaries' = {b \in boundaries : b.id # jurisdiction_id}
            /\ projects' =
                 {IF p.jurisdiction_id = jurisdiction_id
                  THEN [p EXCEPT !.jurisdiction_id = NULL] ELSE p : p \in projects}

\* EntityService.create_entity: the jurisdiction must exist.
create_entity(jurisdiction_id) ==
    /\ UNCHANGED <<settings, users, files, districts, boundaries, jurisdictions, projects, status_records, requests>>
    /\ IF jurisdiction_id \notin jurisdictions
       THEN UNCHANGED entities                     \* Jurisdiction not found
       ELSE \E id \in uuid4("e", Ids(entities), MaxEntities) :
              entities' = entities \cup
                  {[id |-> id, jurisdiction_id |-> jurisdiction_id]}

\* EntityService.update_entity: nothing about the new jurisdiction is checked
\* by the handler; the database checks it where foreign keys are enforced.
update_entity(entity_id, jurisdiction_id) ==
    /\ UNCHANGED <<settings, users, files, districts, boundaries, jurisdictions, projects, status_records, requests>>
    /\ IF \/ entity_id \notin Ids(entities)
          \/ ForeignKeysEnforced /\ jurisdiction_id \notin jurisdictions
       THEN UNCHANGED entities
       ELSE entities' =
              {IF e.id = entity_id
               THEN [e EXCEPT !.jurisdiction_id = jurisdiction_id] ELSE e : e \in entities}

\* EntityService.delete_entity: entity_status_records.entity_id is NOT NULL,
\* so an entity with status records cannot be deleted.
delete_entity(entity_id) ==
    /\ UNCHANGED <<settings, users, files, districts, boundaries, jurisdictions, projects, status_records, requests>>
    /\ IF \/ entity_id \notin Ids(entities)
          \/ \E r \in status_records : r.entity_id = entity_id
       THEN UNCHANGED entities
       ELSE entities' = {e \in entities : e.id # entity_id}

\* ProjectService.create_project: a jurisdiction, when given, must exist.
create_project(jurisdiction_id) ==
    /\ UNCHANGED <<settings, users, files, districts, boundaries, jurisdictions, entities, status_records, requests>>
    /\ IF jurisdiction_id # NULL /\ jurisdiction_id \notin jurisdictions
       THEN UNCHANGED projects                     \* Jurisdiction not found
       ELSE \E id \in uuid4("p", Ids(projects), MaxProjects) :
              projects' = projects \cup
                  {[id |-> id, jurisdiction_id |-> jurisdiction_id]}

\* ProjectService.update_project: jurisdiction_id is UNSET when the body
\* leaves it out (the column is kept), NULL when the body sets it to null.
update_project(project_id, jurisdiction_id) ==
    /\ UNCHANGED <<settings, users, files, districts, boundaries, jurisdictions, entities, status_records, requests>>
    /\ IF \/ project_id \notin Ids(projects)
          \/ jurisdiction_id \notin {NULL, UNSET} /\ jurisdiction_id \notin jurisdictions
       THEN UNCHANGED projects
       ELSE projects' =
              {IF p.id = project_id /\ jurisdiction_id # UNSET
               THEN [p EXCEPT !.jurisdiction_id = jurisdiction_id] ELSE p : p \in projects}

\* ProjectService.delete_project: entity_status_records.project_id is NOT
\* NULL, so a project with status records cannot be deleted.
delete_project(project_id) ==
    /\ UNCHANGED <<settings, users, files, districts, boundaries, jurisdictions, entities, status_records, requests>>
    /\ IF \/ project_id \notin Ids(projects)
          \/ \E r \in status_records : r.project_id = project_id
       THEN UNCHANGED projects
       ELSE projects' = {p \in projects : p.id # project_id}

\* ------------------------------------------------------------ Spec

NoRequests == <<>>

Init ==
    /\ settings \in StoreSettings
    /\ users = {}
    /\ files = {}
    /\ jurisdictions = {}
    /\ districts = {}
    /\ boundaries = {}
    /\ entities = {}
    /\ projects = {}
    /\ status_records = {}
    /\ requests = NoRequests

Next ==
    \/ \E req \in StatusRequests : create_status_record(req)
    \/ \E id \in RecordIds, req \in StatusRequests : update_status_record(id, req)
    \/ \E id \in RecordIds : delete_status_record(id)
    \/ create_jurisdiction
    \/ \E id \in JurisdictionIds : delete_jurisdiction(id)
    \/ \E id \in JurisdictionIds : create_entity(id)
    \/ \E id \in EntityIds, j \in JurisdictionIds : update_entity(id, j)
    \/ \E id \in EntityIds : delete_entity(id)
    \/ \E j \in JurisdictionIds \cup {NULL} : create_project(j)
    \/ \E id \in ProjectIds, j \in JurisdictionIds \cup {NULL, UNSET} :
          update_project(id, j)
    \/ \E id \in ProjectIds : delete_project(id)

Spec == Init /\ [][Next]_vars

\* ------------------------------------------------------------ claims: status aggregator

Buckets(d) ==
    d.solid_approval + d.leaning_approval + d.neutral +
    d.leaning_disapproval + d.solid_disapproval + d.unknown

\* The entities of a stored project's jurisdiction, as the aggregator reads them.
Roster(project_id) ==
    SQLProvider_filter(entities, Row(projects, project_id).jurisdiction_id)

\* The records stored for one (entity, project) pair.
PairRecords(records, entity_id, project_id) ==
    {r \in records : r.entity_id = entity_id /\ r.project_id = project_id}

\* C1: every distribution that get_project_status_distribution returns, for
\* any project id and any reachable content of the tables, has its six
\* buckets summing to its total.
C1_BucketsSumToTotal ==
    \A p \in ProjectIds :
        \A o \in get_project_status_distribution(p) :
            o.error = NULL => Buckets(o.value) = o.value.total

\* C1 witness: a project over a roster of two entities, one of them with an
\* explicit non-neutral record, gets a distribution back.
C1_Witness ==
    \E p \in Ids(projects) :
        /\ Cardinality(Roster(p)) = 2
        /\ \E o \in get_project_status_distribution(p) :
              /\ o.error = NULL
              /\ o.value.total = 2
              /\ o.value.neutral = 1
              /\ o.value.solid_disapproval = 1

\* C2: for a stored project whose jurisdiction has N entities, the call
\* returns total = N and neutral = N minus the number of roster entities that
\* hold an explicit non-neutral record for the project.
C2_TotalFromRosterNeutralByDefault ==
    \A p \in Ids(projects) :
        LET n == Cardinality(Roster(p))
            nonNeutral ==
                {e \in Ids(Roster(p)) :
                    \E r \in PairRecords(status_records, e, p) : r.status # "neutral"}
        IN  \A o \in get_project_status_distribution(p) :
                /\ o.error = NULL
                /\ o.value.total = n
                /\ o.value.neutral = n - Cardinality(nonNeutral)

\* C3: the status-record table holds at most one record per
\* (entity_id, project_id) pair.
C3_AtMostOneRecordPerPair ==
    \A r1, r2 \in status_records :
        (r1.entity_id = r2.entity_id /\ r1.project_id = r2.project_id) => r1 = r2

\* C6: a stored record, for an entity of the project's jurisdiction, whose
\* status is none of the five categories makes the call return (not raise) a
\* distribution that counts the entity in unknown, the buckets summing to total.
C6_UnrecognizedStatusCountsAsUnknown ==
    \A p \in Ids(projects) :
        \A r \in status_records :
            (/\ r.project_id = p
             /\ r.entity_id \in Ids(Roster(p))
             /\ r.status \notin EntityStatus)
            => \A o \in get_project_status_distribution(p) :
                  /\ o.error = NULL
                  /\ o.value.unknown >= 1
                  /\ Buckets(o.value) = o.value.total

\* C8: an entity of the project's jurisdiction whose only record for the
\* project is an explicit neutral one is counted as if it had no record:
\* with the record removed the call has the same outcomes.
C8_ExplicitNeutralIsNoOp ==
    \A r \in status_records :
        (/\ r.status = "neutral"
         /\ r.project_id \in Ids(projects)
         /\ r.entity_id \in Ids(Roster(r.project_id))
         /\ PairRecords(status_records, r.entity_id, r.project_id) = {r})
        => DistributionOutcomes(projects, entities, status_records \ {r}, r.project_id)
             = get_project_status_distribution(r.project_id)

\* C8 witness: a roster of two, one entity with an explicit neutral record and
\* the other with a non-neutral one, and the call returns.
C8_Witness ==
    \E r \in status_records :
        /\ r.status = "neutral"
        /\ r.project_id \in Ids(projects)
        /\ r.entity_id \in Ids(Roster(r.project_id))
        /\ PairRecords(status_records, r.entity_id, r.project_id) = {r}
        /\ Cardinality(Roster(r.project_id)) = 2
        /\ \E o \in get_project_status_distribution(r.project_id) :
              o.error = NULL /\ o.value.neutral = 1 /\ o.value.leaning_approval = 1

\* C9: every field of a returned distribution is a non-negative integer.
C9_FieldsNonNegative ==
    \A p \in ProjectIds :
        \A o \in get_project_status_distribution(p) :
            o.error = NULL =>
                \A f \in DOMAIN o.value : o.value[f] \in Nat

\* C9 witness: every roster entity holds a non-neutral record (neutral is 0)
\* while an entity outside the roster holds a non-neutral record for the
\* same project.
C9_Witness ==
    \E p \in Ids(projects) :
        /\ Roster(p) # {}
        /\ \E r \in status_records :
              /\ r.project_id = p
              /\ r.entity_id \notin Ids(Roster(p))
              /\ r.status \in EntityStatus \ {"neutral"}
        /\ \E o \in get_project_status_distribution(p) :
              o.error = NULL /\ o.value.neutral = 0 /\ o.value.total >= 1

\* ------------------------------------------------------------ SpecUpsert

\* The status handlers alone, with notes in the request bodies, over a roster
\* that the roster handlers of Spec build: one jurisdiction, every entity and
\* every project in it.
UpsertRequests == StatusBodies(Notes \cup {NULL, UNSET})

InitUpsert ==
    /\ settings \in StoreSettings
    /\ users = {}
    /\ files = {}
    /\ jurisdictions = {IdPool("j")[1]}
    /\ districts = {}
    /\ boundaries = {}
    /\ entities = {[id |-> e, jurisdiction_id |-> IdPool("j")[1]] : e \in EntityIds}
    /\ projects = {[id |-> p, jurisdiction_id |-> IdPool("j")[1]] : p \in ProjectIds}
    /\ status_records = {}
    /\ requests = NoRequests

NextUpsert ==
    \/ \E req \in UpsertRequests : create_status_record(req)
    \/ \E id \in RecordIds, req \in UpsertRequests : update_status_record(id, req)
    \/ \E id \in RecordIds : delete_status_record(id)

SpecUpsert == InitUpsert /\ [][NextUpsert]_vars

\* The status and the notes of the EntityStatusRecord object a call carries:
\* a field the body leaves out has the model's default.
CallStatus(req) == IF req.status = UNSET THEN PYDANTIC_STATUS_DEFAULT ELSE req.status
CallNotes(req) == IF req.notes = UNSET THEN NULL ELSE req.notes

\* C4: a create_status_record call for a pair that already has a stored
\* record adds no record; afterwards exactly one record exists for the pair
\* and it carries the status and the notes of the call.
C4_CreateOnExistingPairUpdatesInPlace ==
    [][\A req \in UpsertRequests :
          (/\ PairRecords(status_records, req.entity_id, req.project_id) # {}
           /\ create_status_record(req))
          => /\ Cardinality(status_records') = Cardinality(status_records)
             /\ \E r \in status_records' :
                   /\ PairRecords(status_records', req.entity_id, req.project_id) = {r}
                   /\ r.status = CallStatus(req)
                   /\ r.notes = CallNotes(req)]_vars

\* ------------------------------------------------------------ SpecReferences

\* The status handler together with the handlers that add and remove the
\* projects and entities its records refer to.
ReferenceRequests ==
    [entity_id : EntityIds,
     project_id : ProjectIds,
     status : {"solid_approval", UNSET},
     notes : {UNSET}]

InitReferences ==
    /\ settings \in StoreSettings
    /\ users = {}
    /\ files = {}
    /\ jurisdictions = {IdPool("j")[1]}
    /\ districts = {}
    /\ boundaries = {}
    /\ entities = {}
    /\ projects = {}
    /\ status_records = {}
    /\ requests = NoRequests

NextReferences ==
    \/ \E req \in ReferenceRequests : create_status_record(req)
    \/ \E id \in RecordIds : delete_status_record(id)
    \/ \E id \in JurisdictionIds : create_entity(id)
    \/ \E id \in EntityIds : delete_entity(id)
    \/ \E j \in JurisdictionIds \cup {NULL} : create_project(j)
    \/ \E id \in ProjectIds : delete_project(id)

SpecReferences == InitReferences /\ [][NextReferences]_vars

\* C26: a create_status_record call whose project_id or entity_id names no
\* stored project or entity leaves the status-record store unchanged, and
\* every record a call stores or rewrites refers to a project and an entity
\* that are stored when the call is made.
C26_MissingReferenceStoresNothing ==
    [][\A req \in ReferenceRequests :
          create_status_record(req)
          => /\ (\/ ~\E project \in projects : project.id = req.project_id
                 \/ ~\E entity \in entities : entity.id = req.entity_id)
                => status_records' = status_records
             /\ \A record \in status_records' \ status_records :
                   /\ \E project \in projects : project.id = record.project_id
                   /\ \E entity \in entities : entity.id = record.entity_id]_vars

\* A record has been stored by a call that named a stored project and a
\* stored entity, and a call naming the same entity with a project that is
\* not stored can be made on the non-empty store, in a database that would
\* accept the row.
C26_Witness ==
    /\ \E record \in status_records :
          /\ record.project_id \in Ids(projects)
          /\ record.entity_id \in Ids(entities)
          /\ \E req \in ReferenceRequests :
                /\ req.entity_id = record.entity_id
                /\ req.project_id \notin Ids(projects)
    /\ ~ForeignKeysEnforced

\* StatusService.get_status_record: the provider's get, which validates the
\* row it read.
get_status_record(record_id) ==
    IF record_id \notin Ids(status_records)
    THEN Returned(NULL)
    ELSE IF ~_to_pydantic_ok(Row(status_records, record_id))
    THEN Raised("ValidationError")
    ELSE Returned(Row(status_records, record_id))

\* C27: the record that create_status_record stores for a request that does
\* not set status has status neutral, and get_status_record returns it with
\* status neutral.
C27_UnsetStatusStoredAsNeutral ==
    [][\A req \in ReferenceRequests :
          (req.status = UNSET /\ create_status_record(req))
          => \A record \in status_records' :
                record.id \notin Ids(status_records)
                => /\ record.status = PYDANTIC_STATUS_DEFAULT
                   /\ get_status_record(record.id)'.error = NULL
                   /\ get_status_record(record.id)'.value.status =
                          PYDANTIC_STATUS_DEFAULT]_vars

\* ------------------------------------------------------------ SpecRace

\* Requests are handled as coroutines of one event loop (and by several
\* workers): a handler runs up to its next await, and each provider call is
\* an await that opens its own session and transaction.  A slot holds one
\* request: the handler it runs, where it is, its body and its locals.
Slots == 1..MaxRequests

IdleRequest == [op |-> "idle", pc |-> "idle", body |-> <<>>, match |-> NULL]

Finished(request) == request.pc \in {"returned", "raised"}

RaceBodies ==
    [entity_id : EntityIds,
     project_id : ProjectIds,
     status : {"solid_approval", "leaning_disapproval"},
     notes : {UNSET}]

\* POST /api/status arrives.
begin_create_status_record(slot, body) ==
    /\ requests[slot].op = "idle"
    /\ requests' = [requests EXCEPT ![slot] =
           [op |-> "create_status_record", pc |-> "get_project",
            body |-> body, match |-> NULL]]
    /\ UNCHANGED <<settings, users, files, districts, boundaries, jurisdictions, entities, projects, status_records>>

\* project = await self.projects_provider.get(status_record.project_id)
status_get_project(slot) ==
    /\ requests[slot].op = "create_status_record"
    /\ requests[slot].pc = "get_project"
    /\ requests' = [requests EXCEPT ![slot].pc =
           IF requests[slot].body.project_id \in Ids(projects)
           THEN "get_entity" ELSE "raised"]
    /\ UNCHANGED <<settings, users, files, districts, boundaries, jurisdictions, entities, projects, status_records>>

\* entity = await self.entities_provider.get(status_record.entity_id)
status_get_entity(slot) ==
    /\ requests[slot].op = "create_status_record"
    /\ requests[slot].pc = "get_entity"
    /\ requests' = [requests EXCEPT ![slot].pc =
           IF requests[slot].body.entity_id \in Ids(entities)
           THEN "list" ELSE "raised"]
    /\ UNCHANGED <<settings, users, files, districts, boundaries, jurisdictions, entities, projects, status_records>>

\* existing_records = await self.status_records_provider.list(), and the
\* loop over them up to its first match.
status_list(slot) ==
    /\ requests[slot].op = "create_status_record"
    /\ requests[slot].pc = "list"
    /\ \E existing_records \in SQLProvider_list(status_records) :
          IF \E r \in existing_records : ~_to_pydantic_ok(r)
          THEN requests' = [requests EXCEPT ![slot].pc = "raised"]
          ELSE LET matching ==
                      PairRecords(existing_records,
                                  requests[slot].body.entity_id,
                                  requests[slot].body.project_id)
               IN  IF matching # {}
                   THEN \E record \in matching :
                          requests' = [requests EXCEPT ![slot].pc = "update",
                                                       ![slot].match = record.id]
                   ELSE requests' = [requests EXCEPT ![slot].pc = "create"]
    /\ UNCHANGED <<settings, users, files, districts, boundaries, jurisdictions, entities, projects, status_records>>

\* return await self.status_records_provider.update(record.id, status_record)
status_update(slot) ==
    /\ requests[slot].op = "create_status_record"
    /\ requests[slot].pc = "update"
    /\ status_records' =
           SQLProvider_update(status_records, requests[slot].match, requests[slot].body)
    /\ requests' = [requests EXCEPT ![slot].pc = "returned"]
    /\ UNCHANGED <<settings, users, files, districts, boundaries, jurisdictions, entities, projects>>

\* return await self.status_records_provider.create(status_record)
status_create(slot) ==
    /\ requests[slot].op = "create_status_record"
    /\ requests[slot].pc = "create"
    /\ status_records' \in SQLProvider_create(status_records, requests[slot].body)
    /\ requests' = [requests EXCEPT ![slot].pc =
           IF status_records' = status_records THEN "raised" ELSE "returned"]
    /\ UNCHANGED <<settings, users, files, districts, boundaries, jurisdictions, entities, projects>>

\* The tables when the requests arrive: a roster that the handlers of Spec
\* build (one jurisdiction, every entity and project in it), no records.
InitRace ==
    /\ settings \in StoreSettings
    /\ users = {}
    /\ files = {}
    /\ jurisdictions = {IdPool("j")[1]}
    /\ districts = {}
    /\ boundaries = {}
    /\ entities = {[id |-> e, jurisdiction_id |-> IdPool("j")[1]] : e \in EntityIds}
    /\ projects = {[id |-> p, jurisdiction_id |-> IdPool("j")[1]] : p \in ProjectIds}
    /\ status_records = {}
    /\ requests = [slot \in Slots |-> IdleRequest]

NextRace ==
    \/ \E slot \in Slots, body \in RaceBodies : begin_create_status_record(slot, body)
    \/ \E slot \in Slots : status_get_project(slot)
    \/ \E slot \in Slots : status_get_entity(slot)
    \/ \E slot \in Slots : status_list(slot)
    \/ \E slot \in Slots : status_update(slot)
    \/ \E slot \in Slots : status_create(slot)

SpecRace == InitRace /\ [][NextRace]_vars

\* C5: once two concurrent create_status_record requests for the same pair,
\* which had no record when they arrived, have both finished, at most one
\* record exists for the pair.
C5_ConcurrentCreatesLeaveOneRecord ==
    \A s1, s2 \in Slots :
        (/\ s1 # s2
         /\ requests[s1].op = "create_status_record" /\ Finished(requests[s1])
         /\ requests[s2].op = "create_status_record" /\ Finished(requests[s2])
         /\ requests[s1].body.entity_id = requests[s2].body.entity_id
         /\ requests[s1].body.project_id = requests[s2].body.project_id)
        => Cardinality(PairRecords(status_records,
                                   requests[s1].body.entity_id,
                                   requests[s1].body.project_id)) <= 1

\* ------------------------------------------------------------ SpecProjectRace

\* POST /api/projects arrives; project.jurisdiction_id is NULL when the body
\* names no jurisdiction, and the check of the jurisdiction is then skipped.
begin_create_project(slot, jurisdiction_id) ==
    /\ requests[slot].op = "idle"
    /\ requests' = [requests EXCEPT ![slot] =
           [op |-> "create_project",
            pc |-> IF jurisdiction_id # NULL THEN "get_jurisdiction" ELSE "create",
            body |-> [jurisdiction_id |-> jurisdiction_id], match |-> NULL]]
    /\ UNCHANGED <<settings, users, files, districts, boundaries, jurisdictions, entities, projects, status_records>>

\* jurisdiction = await self.jurisdictions_provider.get(project.jurisdiction_id)
project_get_jurisdiction(slot) ==
    /\ requests[slot].op = "create_project"
    /\ requests[slot].pc = "get_jurisdiction"
    /\ requests' = [requests EXCEPT ![slot].pc =
           IF requests[slot].body.jurisdiction_id \in jurisdictions
           THEN "create" ELSE "raised"]
    /\ UNCHANGED <<settings, users, files, districts, boundaries, jurisdictions, entities, projects, status_records>>

\* return await self.projects_provider.create(project): the INSERT fails on
\* a missing jurisdiction only where the database enforces foreign keys.
project_create(slot) ==
    /\ requests[slot].op = "create_project"
    /\ requests[slot].pc = "create"
    /\ LET jurisdiction_id == requests[slot].body.jurisdiction_id
       IN  IF /\ ForeignKeysEnforced
              /\ jurisdiction_id # NULL
              /\ jurisdiction_id \notin jurisdictions
           THEN /\ UNCHANGED projects
                /\ requests' = [requests EXCEPT ![slot].pc = "raised"]
           ELSE /\ \E id \in uuid4("p", Ids(projects), MaxProjects) :
                      projects' = projects \cup
                          {[id |-> id, jurisdiction_id |-> jurisdiction_id]}
                /\ requests' = [requests EXCEPT ![slot].pc = "returned"]
    /\ UNCHANGED <<settings, users, files, districts, boundaries, jurisdictions, entities, status_records>>

\* The tables when the requests arrive: every jurisdiction, every entity in
\* the first one, no project yet.
InitProjectRace ==
    /\ settings \in StoreSettings
    /\ users = {}
    /\ files = {}
    /\ jurisdictions = JurisdictionIds
    /\ districts = {}
    /\ boundaries = {}
    /\ entities = {[id |-> e, jurisdiction_id |-> IdPool("j")[1]] : e \in EntityIds}
    /\ projects = {}
    /\ status_records = {}
    /\ requests = [slot \in Slots |-> IdleRequest]

\* The requests' steps interleave with each other and with the handlers that
\* run to their end between two of them.
NextProjectRace ==
    \/ \E slot \in Slots, jurisdiction_id \in JurisdictionIds \cup {NULL} :
          begin_create_project(slot, jurisdiction_id)
    \/ \E slot \in Slots : project_get_jurisdiction(slot)
    \/ \E slot \in Slots : project_create(slot)
    \/ \E jurisdiction_id \in JurisdictionIds : delete_jurisdiction(jurisdiction_id)
    \/ \E entity_id \in EntityIds, jurisdiction_id \in JurisdictionIds :
          update_entity(entity_id, jurisdiction_id)

SpecProjectRace == InitProjectRace /\ [][NextProjectRace]_vars

\* C7: get_project_status_distribution returns the all-zero distribution,
\* and does not raise, whenever the project id is not in the store, the
\* project has no jurisdiction, the project's jurisdiction is not in the
\* store, or the jurisdiction has no entities.
C7_ZeroDistributionWithoutRoster ==
    \A project_id \in ProjectIds :
        (\/ project_id \notin Ids(projects)
         \/ Row(projects, project_id).jurisdiction_id = NULL
         \/ Row(projects, project_id).jurisdiction_id \notin jurisdictions
         \/ Roster(project_id) = {})
        => get_project_status_distribution(project_id) = {Returned(StatusDistribution)}

\* ------------------------------------------------------------ SpecGeocode

Addresses == {IdPool("a")[i] : i \in 1..MaxAddresses}

\* What client.get(...) can end with: the transport fails (connection
\* error, timeout), or a response arrives with a status code and a body.
\* Nominatim's body is the list of results; the commercial geocoder's body
\* carries a status next to its results.
TransportError == [transport |-> "error", status_code |-> 0, status |-> NULL, results |-> 0]

NominatimReplies ==
    {TransportError} \cup
    [transport : {"ok"}, status_code : {200, 503}, status : {NULL}, results : 0..MaxResults]

CommercialReplies ==
    {TransportError} \cup
    [transport : {"ok"}, status_code : {200, 503},
     status : {"OK", "ZERO_RESULTS"}, results : 0..MaxResults]

HTTPException(status_code, detail) ==
    [type |-> "HTTPException", status_code |-> status_code, detail |-> detail]

OtherException(type) == [type |-> type, status_code |-> 0, detail |-> NULL]

Coordinates == [type |-> "return", status_code |-> 200, detail |-> "lat, lon"]

\* The body of the try block of _geocode_nominatim: what it returns or raises.
nominatim_try(reply) ==
    IF reply.transport = "error" THEN OtherException("httpx.TransportError")
    ELSE IF reply.status_code # 200 THEN HTTPException(500, "Geocoding service error")
    ELSE IF reply.results = 0 THEN HTTPException(404, "Address not found")
    ELSE Coordinates

\* The body of the try block of _geocode_commercial.
commercial_try(reply) ==
    IF reply.transport = "error" THEN OtherException("httpx.TransportError")
    ELSE IF reply.status # "OK" THEN HTTPException(500, "Geocoding error: status")
    ELSE IF reply.results = 0 THEN OtherException("IndexError")
    ELSE Coordinates

\* except Exception as e: raise HTTPException(status_code=500, ...).
\* HTTPException is an Exception, so the handler also catches the ones the
\* try block raises itself.
except_Exception(outcome) ==
    IF outcome.type = "return" THEN outcome
    ELSE HTTPException(500, "Geocoding error: str(e)")

\* The backend geocode_address picks: the commercial one when both a
\* service name and an API key are configured.
geocoding_backend ==
    IF settings.GEOCODING_SERVICE # NULL /\ settings.GEOCODING_API_KEY # NULL
    THEN "_geocode_commercial" ELSE "_geocode_nominatim"

\* GeocodingService.geocode_address up to the await of the backend it picks;
\* calls lists the backend functions the call has invoked.
geocode_address(slot, address) ==
    /\ requests[slot].op = "idle"
    /\ requests' = [requests EXCEPT ![slot] =
           [op |-> "geocode_address",
            pc |-> geocoding_backend,
            calls |-> <<geocoding_backend>>,
            body |-> [address |-> address], match |-> NULL,
            reply |-> TransportError, outcome |-> OtherException(NULL)]]
    /\ UNCHANGED <<settings, users, files, districts, boundaries, jurisdictions, entities, projects, status_records>>

FinishGeocode(slot, reply, outcome) ==
    requests' = [requests EXCEPT ![slot].reply = reply,
                                 ![slot].outcome = outcome,
                                 ![slot].pc = IF outcome.type = "return"
                                              THEN "returned" ELSE "raised"]

\* GeocodingService._geocode_nominatim from the reply of client.get on.
_geocode_nominatim(slot, reply) ==
    /\ requests[slot].op = "geocode_address"
    /\ requests[slot].pc = "_geocode_nominatim"
    /\ FinishGeocode(slot, reply, except_Exception(nominatim_try(reply)))
    /\ UNCHANGED <<settings, users, files, districts, boundaries, jurisdictions, entities, projects, status_records>>

\* GeocodingService._geocode_commercial from the reply of client.get on.
_geocode_commercial(slot, reply) ==
    /\ requests[slot].op = "geocode_address"
    /\ requests[slot].pc = "_geocode_commercial"
    /\ FinishGeocode(slot, reply, except_Exception(commercial_try(reply)))
    /\ UNCHANGED <<settings, users, files, districts, boundaries, jurisdictions, entities, projects, status_records>>

InitGeocode ==
    /\ settings \in Settings
    /\ users = {}
    /\ files = {}
    /\ jurisdictions = {}
    /\ districts = {}
    /\ boundaries = {}
    /\ entities = {}
    /\ projects = {}
    /\ status_records = {}
    /\ requests = [slot \in Slots |-> IdleRequest]

NextGeocode ==
    \/ \E slot \in Slots, address \in Addresses : geocode_address(slot, address)
    \/ \E slot \in Slots, reply \in NominatimReplies : _geocode_nominatim(slot, reply)
    \/ \E slot \in Slots, reply \in CommercialReplies : _geocode_commercial(slot, reply)

SpecGeocode == InitGeocode /\ [][NextGeocode]_vars

\* The geocoder answered, and found nothing for the address.
ZeroResults(reply) ==
    /\ reply.transport = "ok"
    /\ reply.status_code = 200
    /\ reply.results = 0

\* The transport failed, or the geocoder answered with a non-200 response.
ServiceFailure(reply) ==
    reply.transport = "error" \/ reply.status_code # 200

\* C10: a geocode_address call whose geocoder returned zero results raises
\* the not-found failure (404), which differs from the service failure (5xx)
\* a call raises on a transport error or a non-200 response.
C10_ZeroResultsIsNotFound ==
    \A slot \in Slots :
        (requests[slot].op = "geocode_address" /\ Finished(requests[slot]))
        => /\ ZeroResults(requests[slot].reply)
                => /\ requests[slot].outcome.type = "HTTPException"
                   /\ requests[slot].outcome.status_code = 404
           /\ ServiceFailure(requests[slot].reply)
                => /\ requests[slot].outcome.type = "HTTPException"
                   /\ requests[slot].outcome.status_code >= 500

\* ------------------------------------------------------------ geometry

\* shapely.geometry.Point(lon, lat): x is the longitude, y the latitude.
\* A swapped variant, Point(lat, lon), comes first.
Point_LatLon(lon, lat) == [x |-> lat, y |-> lon]

Point(lon, lat) == [x |-> lon, y |-> lat]

\* GeoJSON geometries: a Polygon's coordinates are its rings, a ring is a
\* closed sequence of <<lon, lat>> positions.
Polygon(ring) == [type |-> "Polygon", coordinates |-> <<ring>>]

Square == Polygon(<< <<0, 0>>, <<0, 10>>, <<10, 10>>, <<10, 0>>, <<0, 0>> >>)

WideRectangle == Polygon(<< <<0, 0>>, <<0, 10>>, <<20, 10>>, <<20, 0>>, <<0, 0>> >>)

FarSquare == Polygon(<< <<20, 20>>, <<20, 30>>, <<30, 30>>, <<30, 20>>, <<20, 20>> >>)

\* A geometry that is syntactically invalid: no GeoJSON geometry type.
InvalidGeometry == [type |-> "Polygn", coordinates |-> <<>>]

\* shapely.geometry.shape(geometry) raises on a type it does not know and on
\* a ring of fewer than four positions.
shape_raises(geometry) ==
    \/ geometry.type # "Polygon"
    \/ \E i \in DOMAIN geometry.coordinates :
          Len(geometry.coordinates[i]) \in 1..3

\* The exterior ring of shape(geometry).
ExteriorRing(geometry) ==
    IF geometry.coordinates = <<>> THEN <<>> ELSE geometry.coordinates[1]

Min(a, b) == IF a <= b THEN a ELSE b
Max(a, b) == IF a >= b THEN a ELSE b

\* The point lies on the segment from a to b.
OnSegment(a, b, point) ==
    /\ (b[1] - a[1]) * (point.y - a[2]) = (b[2] - a[2]) * (point.x - a[1])
    /\ Min(a[1], b[1]) <= point.x /\ point.x <= Max(a[1], b[1])
    /\ Min(a[2], b[2]) <= point.y /\ point.y <= Max(a[2], b[2])

\* The ray from the point towards +x crosses the segment from a to b.
RayCrosses(a, b, point) ==
    /\ (a[2] > point.y) # (b[2] > point.y)
    /\ LET dy == b[2] - a[2]
           lhs == (point.x - a[1]) * dy
           rhs == (b[1] - a[1]) * (point.y - a[2])
       IN  IF dy > 0 THEN lhs < rhs ELSE lhs > rhs

\* geom.contains(point): the point is in the interior of the polygon; a point
\* of the boundary is not contained.
contains(geometry, point) ==
    LET ring == ExteriorRing(geometry)
        sides == 1..(Len(ring) - 1)
    IN  /\ \A i \in sides : ~OnSegment(ring[i], ring[i + 1], point)
        /\ Cardinality({i \in sides : RayCrosses(ring[i], ring[i + 1], point)}) % 2 = 1

\* ------------------------------------------------------------ SpecContains

\* The coordinates of the query points: inside, on and outside the polygons.
GridCoordinates == {0, 5, 10, 15}

TestPolygons == {Square, WideRectangle}

\* A containment test is asked for: point = Point(lon, lat), geom = shape(...).
begin_containment(slot, geometry, lon, lat) ==
    /\ requests[slot].op = "idle"
    /\ requests' = [requests EXCEPT ![slot] =
           [op |-> "containment", pc |-> "called",
            body |-> [geometry |-> geometry, lon |-> lon, lat |-> lat],
            match |-> NULL, answers |-> <<>>]]
    /\ UNCHANGED <<settings, users, files, districts, boundaries, jurisdictions, entities,
                   projects, status_records>>

\* geom.contains(point), called once more on the same geometry and point.
test_containment(slot) ==
    /\ requests[slot].op = "containment"
    /\ Len(requests[slot].answers) < MaxCalls
    /\ LET body == requests[slot].body
       IN  requests' = [requests EXCEPT
               ![slot].answers = Append(@, contains(body.geometry,
                                                    Point(body.lon, body.lat))),
               ![slot].pc = "returned"]
    /\ UNCHANGED <<settings, users, files, districts, boundaries, jurisdictions, entities,
                   projects, status_records>>

InitContains ==
    /\ settings \in StoreSettings
    /\ users = {}
    /\ files = {}
    /\ jurisdictions = {}
    /\ districts = {}
    /\ boundaries = {}
    /\ entities = {}
    /\ projects = {}
    /\ status_records = {}
    /\ requests = [slot \in Slots |-> IdleRequest]

NextContains ==
    \/ \E slot \in Slots, geometry \in TestPolygons,
          lon \in GridCoordinates, lat \in GridCoordinates :
          begin_containment(slot, geometry, lon, lat)
    \/ \E slot \in Slots : test_containment(slot)

SpecContains == InitContains /\ [][NextContains]_vars

\* The corners of an axis-parallel rectangle given as a polygon.
BoxOf(geometry) ==
    LET ring == ExteriorRing(geometry)
        xs == {ring[i][1] : i \in DOMAIN ring}
        ys == {ring[i][2] : i \in DOMAIN ring}
    IN  [x0 |-> CHOOSE v \in xs : \A w \in xs : v <= w,
         x1 |-> CHOOSE v \in xs : \A w \in xs : v >= w,
         y0 |-> CHOOSE v \in ys : \A w \in ys : v <= w,
         y1 |-> CHOOSE v \in ys : \A w \in ys : v >= w]

StrictlyInside(box, lon, lat) ==
    box.x0 < lon /\ lon < box.x1 /\ box.y0 < lat /\ lat < box.y1

StrictlyOutside(box, lon, lat) ==
    lon < box.x0 \/ lon > box.x1 \/ lat < box.y0 \/ lat > box.y1

Feature(geometry) == [type |-> "Feature", geometry |-> geometry]

FeatureCollection(features) == [type |-> "FeatureCollection", features |-> features]

\* "geometry": null
NullGeometry == [type |-> "null", coordinates |-> <<>>]

GeoJSONs ==
    {Feature(Square), Feature(FarSquare), Feature(InvalidGeometry), Feature(NullGeometry),
     FeatureCollection(<<Feature(Square)>>),
     FeatureCollection(<<Feature(InvalidGeometry), Feature(Square)>>),
     FeatureCollection(<<Feature(Square), Feature(InvalidGeometry)>>),
     Square}

\* What a geo query can end with.
GeoReturned(ids) == [error |-> NULL, value |-> ids]
GeoRaised(error) == [error |-> error, value |-> {}]

\* for feature in boundary_data.get("features", []): from feature i on.  A
\* feature without geometry is passed over, shape() can raise, the first
\* feature that contains the point ends the loop.
RECURSIVE check_features(_, _, _)
check_features(features, i, point) ==
    IF i > Len(features) THEN "no match"
    ELSE LET geometry == features[i].geometry
         IN  IF geometry.type = "null" THEN check_features(features, i + 1, point)
             ELSE IF shape_raises(geometry) THEN "error"
             ELSE IF contains(geometry, point) THEN "match"
             ELSE check_features(features, i + 1, point)

\* The body of the try block for one row: "match" (the id is appended),
\* "no match", or "error" (an exception, which the except clause logs).
check_jurisdiction(boundary_data, point) ==
    IF boundary_data.type = "FeatureCollection"
    THEN check_features(boundary_data.features, 1, point)
    ELSE IF boundary_data.type = "Feature"
    THEN check_features(<<boundary_data>>, 1, point)
    ELSE IF shape_raises(boundary_data) THEN "error"
    ELSE IF contains(boundary_data, point) THEN "match"
    ELSE "no match"

\* point_in_jurisdictions with one try block around the whole loop.
point_in_jurisdictions_AbortOnError(rows, lat, lon) ==
    IF \E row \in rows : check_jurisdiction(row.boundary, Point(lon, lat)) = "error"
    THEN GeoRaised("Exception")
    ELSE GeoReturned({row.id : row \in
             {r \in rows : check_jurisdiction(r.boundary, Point(lon, lat)) = "match"}})

\* SQLiteGeoProvider.point_in_jurisdictions on the rows with a boundary: the
\* ids of the rows whose try block appended them.
point_in_jurisdictions(rows, lat, lon) ==
    GeoReturned({row.id : row \in
        {r \in rows : check_jurisdiction(r.boundary, Point(lon, lat)) = "match"}})

\* d.boundary->>'geometry': the member "geometry" of the stored document, SQL
\* NULL when the document has no such member or the member is null.
boundary_geometry(boundary) ==
    IF boundary.type = "Feature" THEN boundary.geometry ELSE NullGeometry

\* PostgresGeoProvider.districts_containing_point on the rows with a boundary:
\* ST_GeomFromGeoJSON raises on an invalid geometry and the statement fails;
\* ST_Contains of NULL is NULL and the row is not selected.
districts_containing_point(rows, lat, lon) ==
    IF \E row \in rows :
          /\ boundary_geometry(row.boundary).type # "null"
          /\ shape_raises(boundary_geometry(row.boundary))
    THEN GeoRaised("DBAPIError")
    ELSE GeoReturned({row.id : row \in
             {r \in rows :
                 /\ boundary_geometry(r.boundary).type # "null"
                 /\ contains(boundary_geometry(r.boundary), Point(lon, lat))}})

\* UPDATE ... SET boundary = json.dumps(geojson) WHERE id = owner: the
\* owner's row, when there is one, gets the document.
store_boundary(rows, owner_id, geojson) ==
    {r \in rows : r.id # owner_id} \cup {[id |-> owner_id, boundary |-> geojson]}

\* SQLiteGeoProvider.store_jurisdiction_boundary
store_jurisdiction_boundary(jurisdiction_id, geojson) ==
    /\ boundaries' = IF jurisdiction_id \in jurisdictions
                     THEN store_boundary(boundaries, jurisdiction_id, geojson)
                     ELSE boundaries
    /\ UNCHANGED <<settings, users, files, districts, jurisdictions, entities, projects,
                   status_records, requests>>

\* The rows of jurisdictions WHERE boundary IS NOT NULL.
jurisdiction_boundaries == {b \in boundaries : b.id \in jurisdictions}

\* ------------------------------------------------------------ SpecGeo

\* The (lat, lon) pairs a geocoder answers with.
QueryCoordinates == {<<5, 5>>, <<15, 15>>, <<25, 25>>}

\* AddressLookupResponse(address, coordinates=None, jurisdictions=[])
EmptyLookupResponse_NoCoordinates(address, lat, lon) ==
    [address |-> address, coordinates |-> <<>>, jurisdictions |-> {}]

\* AddressLookupResponse(address, coordinates=(lat, lon), jurisdictions=[])
EmptyLookupResponse(address, lat, lon) ==
    [address |-> address, coordinates |-> <<lat, lon>>, jurisdictions |-> {}]

\* POST /lookup arrives: lookup_representatives up to its first await.
begin_lookup_representatives(slot, address) ==
    /\ requests[slot].op = "idle"
    /\ requests' = [requests EXCEPT ![slot] =
           [op |-> "lookup_representatives", pc |-> "geocode_address",
            body |-> [address |-> address], match |-> NULL,
            coordinates |-> <<>>, jurisdiction_ids |-> {},
            response |-> EmptyLookupResponse_NoCoordinates(NULL, 0, 0)]]
    /\ UNCHANGED <<settings, users, files, districts, boundaries, jurisdictions, entities,
                   projects, status_records>>

\* lat, lon = await geocoding_service.geocode_address(request.address): the
\* geocoder's reply decides between coordinates and an HTTPException.
lookup_geocode_address(slot, reply) ==
    /\ requests[slot].op = "lookup_representatives"
    /\ requests[slot].pc = "geocode_address"
    /\ IF except_Exception(nominatim_try(reply)).type = "return"
       THEN \E coordinates \in QueryCoordinates :
              requests' = [requests EXCEPT ![slot].pc = "point_in_jurisdictions",
                                           ![slot].coordinates = coordinates]
       ELSE requests' = [requests EXCEPT ![slot].pc = "raised"]
    /\ UNCHANGED <<settings, users, files, districts, boundaries, jurisdictions, entities,
                   projects, status_records>>

\* jurisdiction_ids = await geo_provider.point_in_jurisdictions(lat, lon),
\* and the empty response when there are none.
lookup_point_in_jurisdictions(slot) ==
    /\ requests[slot].op = "lookup_representatives"
    /\ requests[slot].pc = "point_in_jurisdictions"
    /\ LET lat == requests[slot].coordinates[1]
           lon == requests[slot].coordinates[2]
           outcome == point_in_jurisdictions(jurisdiction_boundaries, lat, lon)
       IN  IF outcome.error # NULL
           THEN requests' = [requests EXCEPT ![slot].pc = "raised"]
           ELSE IF outcome.value = {}
           THEN requests' = [requests EXCEPT
                    ![slot].pc = "returned",
                    ![slot].response =
                        EmptyLookupResponse(requests[slot].body.address, lat, lon)]
           ELSE requests' = [requests EXCEPT ![slot].pc = "details",
                                             ![slot].jurisdiction_ids = outcome.value]
    /\ UNCHANGED <<settings, users, files, districts, boundaries, jurisdictions, entities,
                   projects, status_records>>

\* The loop over jurisdiction_ids: each jurisdiction still stored, with its
\* entities, and the complete response.
lookup_details(slot) ==
    /\ requests[slot].op = "lookup_representatives"
    /\ requests[slot].pc = "details"
    /\ requests' = [requests EXCEPT
           ![slot].pc = "returned",
           ![slot].response =
               [address |-> requests[slot].body.address,
                coordinates |-> requests[slot].coordinates,
                jurisdictions |->
                    {[id |-> jid, entities |-> Ids(SQLProvider_filter(entities, jid))] :
                        jid \in requests[slot].jurisdiction_ids \cap jurisdictions}]]
    /\ UNCHANGED <<settings, users, files, districts, boundaries, jurisdictions, entities,
                   projects, status_records>>

\* The deployments whose geo provider is the in-process one.
InitGeo ==
    /\ settings \in {s \in StoreSettings : s.DATABASE_PROVIDER = "sqlite"}
    /\ users = {}
    /\ files = {}
    /\ jurisdictions = JurisdictionIds
    /\ districts = {}
    /\ boundaries = {}
    /\ entities = {[id |-> e, jurisdiction_id |-> IdPool("j")[1]] : e \in EntityIds}
    /\ projects = {}
    /\ status_records = {}
    /\ requests = [slot \in Slots |-> IdleRequest]

NextGeo ==
    \/ \E jurisdiction_id \in JurisdictionIds, geojson \in GeoJSONs :
          store_jurisdiction_boundary(jurisdiction_id, geojson)
    \/ \E slot \in Slots, address \in Addresses : begin_lookup_representatives(slot, address)
    \/ \E slot \in Slots, reply \in NominatimReplies : lookup_geocode_address(slot, reply)
    \/ \E slot \in Slots : lookup_point_in_jurisdictions(slot)
    \/ \E slot \in Slots : lookup_details(slot)

SpecGeo == InitGeo /\ [][NextGeo]_vars

\* The geometries a stored document holds.
GeometriesOf(boundary) ==
    IF boundary.type = "FeatureCollection"
    THEN {boundary.features[i].geometry : i \in 1..Len(boundary.features)}
    ELSE IF boundary.type = "Feature" THEN {boundary.geometry}
    ELSE {boundary}

\* Some valid geometry of the document contains the point.
BoundaryContains(boundary, point) ==
    \E geometry \in GeometriesOf(boundary) :
        /\ geometry.type # "null"
        /\ ~shape_raises(geometry)
        /\ contains(geometry, point)

\* Some geometry of the document cannot be parsed.
HasInvalidGeometry(boundary) ==
    \E geometry \in GeometriesOf(boundary) :
        geometry.type # "null" /\ shape_raises(geometry)

C12_ValidFeatureStillMatches ==
    \A row \in jurisdiction_boundaries, c \in QueryCoordinates :
        (/\ row.boundary.type = "FeatureCollection"
         /\ HasInvalidGeometry(row.boundary)
         /\ BoundaryContains(row.boundary, Point(c[2], c[1])))
        => /\ point_in_jurisdictions(jurisdiction_boundaries, c[1], c[2]).error = NULL
           /\ row.id \in point_in_jurisdictions(jurisdiction_boundaries, c[1], c[2]).value

\* C13: a failure on one stored row never aborts the in-process query: it
\* returns, every row without a failure whose boundary contains the point is
\* in the result, and a row that failed is not.
C13_RowFailureIsSkipped ==
    \A c \in QueryCoordinates :
        LET outcome == point_in_jurisdictions(jurisdiction_boundaries, c[1], c[2])
            point == Point(c[2], c[1])
        IN  /\ outcome.error = NULL
            /\ \A row \in jurisdiction_boundaries :
                  /\ (~HasInvalidGeometry(row.boundary) /\ BoundaryContains(row.boundary, point))
                        => row.id \in outcome.value
                  /\ check_jurisdiction(row.boundary, point) = "error"
                        => row.id \notin outcome.value
                  /\ row.id \in outcome.value => BoundaryContains(row.boundary, point)

C13_Witness ==
    \E slot \in Slots, failing, other \in jurisdiction_boundaries :
        /\ failing.boundary = Feature(InvalidGeometry)
        /\ other.boundary = Feature(Square)
        /\ requests[slot].op = "lookup_representatives"
        /\ requests[slot].pc = "details"
        /\ requests[slot].coordinates = <<5, 5>>
        /\ requests[slot].jurisdiction_ids = {other.id}

\* C14: on the same stored boundaries, encoded as a Feature or as a
\* FeatureCollection, and the same point, the native spatial query and the
\* in-process query return the same set of ids.
C14_BackendsAgree ==
    \A c \in QueryCoordinates :
        LET rows == {b \in boundaries : b.boundary.type \in {"Feature", "FeatureCollection"}}
        IN  districts_containing_point(rows, c[1], c[2])
                = point_in_jurisdictions(rows, c[1], c[2])

\* ------------------------------------------------------------ SpecLookup

\* SQLProvider.filter_multiple(filters={}, in_filters={field: values}): the
\* rows whose field is one of the values.
filter_multiple_in(rows, field, values) == {r \in rows : r[field] \in values}

\* PostgresGeoProvider.store_district_boundary
store_district_boundary(district_id, geojson) ==
    /\ boundaries' = IF district_id \in Ids(districts)
                     THEN store_boundary(boundaries, district_id, geojson)
                     ELSE boundaries
    /\ UNCHANGED <<settings, users, files, districts, jurisdictions, entities, projects,
                   status_records, requests>>

\* The documents stored as district boundaries.
DistrictGeoJSONs ==
    {Feature(Square), Feature(FarSquare), Feature(InvalidGeometry),
     FeatureCollection(<<Feature(Square)>>)}

\* The rows of districts WHERE boundary IS NOT NULL.
district_boundaries == {b \in boundaries : b.id \in Ids(districts)}

\* SQLiteGeoProvider.districts_containing_point: the in-process query, over
\* the districts.
SQLite_districts_containing_point(rows, lat, lon) == point_in_jurisdictions(rows, lat, lon)

\* geo_provider.districts_containing_point(lat, lon) of the provider that
\* get_geo_provider builds.
geo_provider_districts_containing_point(lat, lon) ==
    IF settings.DATABASE_PROVIDER = "postgres"
    THEN districts_containing_point(district_boundaries, lat, lon)
    ELSE SQLite_districts_containing_point(district_boundaries, lat, lon)

\* The address strings a client can send: AddressLookupRequest.address is a
\* plain str.
EmptyAddress == ""
LookupAddresses == Addresses \cup {EmptyAddress}

\* AddressLookupRequest(address=...) validates: any str does.
AddressLookupRequest_valid(address) == address \in LookupAddresses

\* POST /address_lookup arrives: the body is validated and the handler runs
\* up to its first await.
begin_lookup_entities_by_address(slot, address) ==
    /\ requests[slot].op = "idle"
    /\ requests' = [requests EXCEPT ![slot] =
           [op |-> "lookup_entities_by_address",
            pc |-> IF AddressLookupRequest_valid(address)
                   THEN "geocode_address" ELSE "raised",
            body |-> [address |-> address], match |-> NULL,
            status_code |-> IF AddressLookupRequest_valid(address) THEN 0 ELSE 422,
            coordinates |-> <<>>, response |-> {}]]
    /\ UNCHANGED <<settings, users, files, districts, boundaries, jurisdictions, entities,
                   projects, status_records>>

\* lat, lon = await self.geocoding_service.geocode_address(address=...)
entities_geocode_address(slot, reply) ==
    /\ requests[slot].op = "lookup_entities_by_address"
    /\ requests[slot].pc = "geocode_address"
    /\ IF except_Exception(nominatim_try(reply)).type = "return"
       THEN \E coordinates \in QueryCoordinates :
              requests' = [requests EXCEPT ![slot].pc = "districts_containing_point",
                                           ![slot].coordinates = coordinates]
       ELSE requests' = [requests EXCEPT
                ![slot].pc = "raised",
                ![slot].status_code = except_Exception(nominatim_try(reply)).status_code]
    /\ UNCHANGED <<settings, users, files, districts, boundaries, jurisdictions, entities,
                   projects, status_records>>

\* Steps 2 to 4: the districts containing the point, the entities of those
\* districts, and the list returned.
entities_districts_containing_point(slot) ==
    /\ requests[slot].op = "lookup_entities_by_address"
    /\ requests[slot].pc = "districts_containing_point"
    /\ LET outcome == geo_provider_districts_containing_point(
                          requests[slot].coordinates[1], requests[slot].coordinates[2])
       IN  IF outcome.error # NULL
           THEN requests' = [requests EXCEPT ![slot].pc = "raised",
                                             ![slot].status_code = 500]
           ELSE requests' = [requests EXCEPT
                    ![slot].pc = "returned",
                    ![slot].status_code = 200,
                    ![slot].response =
                        Ids(filter_multiple_in(entities, "district_id", outcome.value))]
    /\ UNCHANGED <<settings, users, files, districts, boundaries, jurisdictions, entities,
                   projects, status_records>>

InitLookup ==
    /\ settings \in StoreSettings
    /\ users = {}
    /\ files = {}
    /\ jurisdictions = {IdPool("j")[1]}
    /\ districts = {[id |-> d, jurisdiction_id |-> IdPool("j")[1], code |-> d] : d \in DistrictIds}
    /\ boundaries = {}
    /\ \E district_of \in [EntityIds -> DistrictIds] :
          entities = {[id |-> e, jurisdiction_id |-> IdPool("j")[1],
                       district_id |-> district_of[e]] : e \in EntityIds}
    /\ projects = {}
    /\ status_records = {}
    /\ requests = [slot \in Slots |-> IdleRequest]

NextLookup ==
    \/ \E district_id \in DistrictIds, geojson \in DistrictGeoJSONs :
          store_district_boundary(district_id, geojson)
    \/ \E slot \in Slots, address \in LookupAddresses :
          begin_lookup_entities_by_address(slot, address)
    \/ \E slot \in Slots, reply \in NominatimReplies : entities_geocode_address(slot, reply)
    \/ \E slot \in Slots : entities_districts_containing_point(slot)

SpecLookup == InitLookup /\ [][NextLookup]_vars

\* C16: an empty address is rejected as a validation failure before any
\* geocoder call: a lookup with an empty address is never past validation.
C16_EmptyAddressRejected ==
    \A slot \in Slots :
        (/\ requests[slot].op = "lookup_entities_by_address"
         /\ requests[slot].body.address = EmptyAddress)
        => /\ requests[slot].pc = "raised"
           /\ requests[slot].status_code = 422

\* The districts one of whose stored geometries contains the point.
DistrictsContaining(lat, lon) ==
    {row.id : row \in {b \in district_boundaries :
                          BoundaryContains(b.boundary, Point(lon, lat))}}

\* C17: lookup_entities_by_address returns exactly the entities whose
\* district_id is in the set of districts containing the geocoded point, and
\* an empty list, without raising, when there is no such district or entity.
C17_EntitiesOfContainingDistricts ==
    [][\A slot \in Slots :
          entities_districts_containing_point(slot)
          => /\ requests'[slot].pc = "returned"
             /\ requests'[slot].response =
                    {e.id : e \in {x \in entities :
                        x.district_id \in DistrictsContaining(
                            requests[slot].coordinates[1], requests[slot].coordinates[2])}}]_vars

\* ------------------------------------------------------------ SpecProjects

\* class ProjectStatus(str, Enum)
ProjectStatus == {"draft", "active", "completed", "archived"}
ARCHIVED == "archived"

\* Project.status: default=ProjectStatus.DRAFT in the ORM and in ProjectBase.
PROJECT_STATUS_DEFAULT == "draft"

\* The groups stored; the group table does not change here.
GroupIds == {"g1"}

\* SQLProvider.filter_multiple(filters, in_filters): the rows equal to every
\* value of filters and within every list of in_filters.
filter_multiple_rows(rows, filters, in_filters) ==
    {r \in rows :
        /\ \A k \in DOMAIN filters : r[k] = filters[k]
        /\ \A k \in DOMAIN in_filters : r[k] \in in_filters[k]}

\* The query of list_projects in the shape of the route: no default filter.
list_projects_query_NoDefault(rows, status, group_id) ==
    LET filters == (IF status # NULL THEN [status |-> status] ELSE <<>>)
                       @@ (IF group_id # NULL THEN [group_id |-> group_id] ELSE <<>>)
    IN  IF DOMAIN filters # {}
        THEN {filter_multiple_rows(rows, filters, <<>>)}
        ELSE SQLProvider_list(rows)

\* The query of ProjectService.list_projects: the possible row sets it
\* reads, for status and group_id arguments that may be None.
list_projects_query(rows, status, group_id) ==
    LET filters == (IF status # NULL THEN [status |-> status] ELSE <<>>)
                       @@ (IF group_id # NULL THEN [group_id |-> group_id] ELSE <<>>)
        in_filters == IF status # NULL THEN <<>>
                      ELSE [status |-> ProjectStatus \ {ARCHIVED}]
    IN  IF DOMAIN filters # {} \/ DOMAIN in_filters # {}
        THEN {filter_multiple_rows(rows, filters, in_filters)}
        ELSE SQLProvider_list(rows)

\* ProjectService.list_projects: the rows read, which the enrichment then
\* extends with view fields (there are no status records here, so every
\* distribution is computed).
list_projects(slot, status, group_id) ==
    /\ requests[slot].op = "idle"
    /\ \E rows \in list_projects_query(projects, status, group_id) :
          requests' = [requests EXCEPT ![slot] =
              [op |-> "list_projects", pc |-> "returned",
               body |-> [status |-> status, group_id |-> group_id],
               match |-> NULL, response |-> rows]]
    /\ UNCHANGED <<settings, users, files, districts, boundaries, jurisdictions, entities,
                   projects, status_records>>

\* ProjectService.create_project with a body that sets status (or leaves it
\* out: UNSET) and group_id.
ProjectService_create_project(status, group_id) ==
    /\ UNCHANGED <<settings, users, files, districts, boundaries, jurisdictions, entities,
                   status_records, requests>>
    /\ IF group_id # NULL /\ group_id \notin GroupIds
       THEN UNCHANGED projects                     \* Group not found
       ELSE \E id \in uuid4("p", Ids(projects), MaxProjects) :
              projects' = projects \cup
                  {[id |-> id, jurisdiction_id |-> NULL, group_id |-> group_id,
                    status |-> IF status = UNSET THEN PROJECT_STATUS_DEFAULT ELSE status]}

\* ProjectService.update_project with a body that sets status or leaves it
\* out.
ProjectService_update_project(project_id, status) ==
    /\ UNCHANGED <<settings, users, files, districts, boundaries, jurisdictions, entities,
                   status_records, requests>>
    /\ IF project_id \notin Ids(projects)
       THEN UNCHANGED projects
       ELSE projects' =
              {IF p.id = project_id /\ status # UNSET
               THEN [p EXCEPT !.status = status] ELSE p : p \in projects}

InitProjects ==
    /\ settings \in StoreSettings
    /\ users = {}
    /\ files = {}
    /\ jurisdictions = {}
    /\ districts = {}
    /\ boundaries = {}
    /\ entities = {}
    /\ projects = {}
    /\ status_records = {}
    /\ requests = [slot \in Slots |-> IdleRequest]

NextProjects ==
    \/ \E status \in ProjectStatus \cup {UNSET}, group_id \in GroupIds \cup {NULL} :
          ProjectService_create_project(status, group_id)
    \/ \E project_id \in ProjectIds, status \in ProjectStatus \cup {UNSET} :
          ProjectService_update_project(project_id, status)
    \/ \E project_id \in ProjectIds : delete_project(project_id)
    \/ \E slot \in 1..MaxListCalls, status \in ProjectStatus \cup {NULL},
          group_id \in GroupIds \cup {NULL} :
          list_projects(slot, status, group_id)

SpecProjects == InitProjects /\ [][NextProjects]_vars

\* C18: ProjectService.list_projects called without a status filter never
\* returns an archived project, whatever the project store holds.
C18_ArchivedHiddenByDefault ==
    \A slot \in Slots :
        (/\ requests[slot].op = "list_projects"
         /\ requests[slot].body.status = NULL)
        => \A project \in requests[slot].response : project.status # ARCHIVED

C18_Witness ==
    \E slot \in Slots :
        /\ requests[slot].op = "list_projects"
        /\ requests[slot].body.status = NULL
        /\ requests[slot].body.group_id = NULL
        /\ \E project \in projects : project.status = ARCHIVED
        /\ \E project \in projects :
              project.status = "active" /\ requests[slot].response = {project}

\* ------------------------------------------------------------ SpecDistricts

\* District.code: a short string, or NULL.
Codes == {"1", "2"}

\* DistrictService.create_district: the jurisdiction must exist; nothing
\* about the code is checked and the table has no unique constraint.
DistrictService_create_district(jurisdiction_id, code) ==
    /\ UNCHANGED <<settings, users, files, boundaries, jurisdictions, entities, projects,
                   status_records, requests>>
    /\ IF jurisdiction_id \notin jurisdictions
       THEN UNCHANGED districts                    \* Jurisdiction not found
       ELSE \E id \in uuid4("d", Ids(districts), MaxDistricts) :
              districts' = districts \cup
                  {[id |-> id, jurisdiction_id |-> jurisdiction_id, code |-> code]}

\* DistrictService.update_district: the jurisdiction must exist; code is
\* UNSET when the body leaves it out.
DistrictService_update_district(district_id, jurisdiction_id, code) ==
    /\ UNCHANGED <<settings, users, files, boundaries, jurisdictions, entities, projects,
                   status_records, requests>>
    /\ IF jurisdiction_id \notin jurisdictions \/ district_id \notin Ids(districts)
       THEN UNCHANGED districts
       ELSE districts' =
              {IF d.id = district_id
               THEN [d EXCEPT !.jurisdiction_id = jurisdiction_id,
                              !.code = IF code = UNSET THEN d.code ELSE code]
               ELSE d : d \in districts}

\* DistrictService.delete_district.  Session.delete sets the district_id of
\* the district's entities to NULL, and entities.district_id is NOT NULL: a
\* district with entities cannot be deleted.  The boundary goes with the row.
DistrictService_delete_district(district_id) ==
    /\ UNCHANGED <<settings, users, files, jurisdictions, entities, projects, status_records, requests>>
    /\ IF \/ district_id \notin Ids(districts)
          \/ \E e \in entities : e.district_id = district_id
       THEN UNCHANGED <<districts, boundaries>>
       ELSE /\ districts' = {d \in districts : d.id # district_id}
            /\ boundaries' = {b \in boundaries : b.id # district_id}

\* EntityService.create_entity: the jurisdiction must exist; the district is
\* checked by the database only, where foreign keys are enforced.
EntityService_create_entity(jurisdiction_id, district_id) ==
    /\ UNCHANGED <<settings, users, files, districts, boundaries, jurisdictions, projects,
                   status_records, requests>>
    /\ IF \/ jurisdiction_id \notin jurisdictions
          \/ ForeignKeysEnforced /\ district_id \notin Ids(districts)
       THEN UNCHANGED entities
       ELSE \E id \in uuid4("e", Ids(entities), MaxEntities) :
              entities' = entities \cup
                  {[id |-> id, jurisdiction_id |-> jurisdiction_id,
                    district_id |-> district_id]}

\* EntityService.update_entity: the handler checks nothing about the new
\* jurisdiction and district; the database checks that both exist where
\* foreign keys are enforced.
EntityService_update_entity(entity_id, jurisdiction_id, district_id) ==
    /\ UNCHANGED <<settings, users, files, districts, boundaries, jurisdictions, projects,
                   status_records, requests>>
    /\ IF \/ entity_id \notin Ids(entities)
          \/ ForeignKeysEnforced /\ jurisdiction_id \notin jurisdictions
          \/ ForeignKeysEnforced /\ district_id \notin Ids(districts)
       THEN UNCHANGED entities
       ELSE entities' =
              {IF e.id = entity_id
               THEN [e EXCEPT !.jurisdiction_id = jurisdiction_id,
                              !.district_id = district_id]
               ELSE e : e \in entities}

\* The loop of _import_from_tabular_data from item i on: a code found in
\* existing_by_code updates that district with the same code and
\* jurisdiction, any other code creates a district; an item that raises
\* (no jurisdiction, no id left) is counted and passed over.
RECURSIVE import_items(_, _, _, _, _)
import_items(rows, data, i, existing_codes, jurisdiction_id) ==
    IF i > Len(data) THEN rows
    ELSE IF data[i] \in existing_codes \/ jurisdiction_id \notin jurisdictions
              \/ uuid4("d", Ids(rows), MaxDistricts) = {}
         THEN import_items(rows, data, i + 1, existing_codes, jurisdiction_id)
         ELSE import_items(
                  rows \cup {[id |-> CHOOSE id \in uuid4("d", Ids(rows), MaxDistricts) : TRUE,
                              jurisdiction_id |-> jurisdiction_id, code |-> data[i]]},
                  data, i + 1, existing_codes, jurisdiction_id)

\* DistrictImporter._import_from_tabular_data: existing_by_code is built
\* once, from the jurisdiction's districts before the loop.
_import_from_tabular_data(data, jurisdiction_id) ==
    /\ districts' = import_items(districts, data, 1,
                        {d.code : d \in {x \in districts : x.jurisdiction_id = jurisdiction_id}},
                        jurisdiction_id)
    /\ UNCHANGED <<settings, users, files, boundaries, jurisdictions, entities, projects,
                   status_records, requests>>

\* The tables an import file can hold: up to MaxImportRows codes.
ImportData == UNION {[1..n -> Codes] : n \in 1..MaxImportRows}

InitDistricts ==
    /\ settings \in StoreSettings
    /\ users = {}
    /\ files = {}
    /\ jurisdictions = {}
    /\ districts = {}
    /\ boundaries = {}
    /\ entities = {}
    /\ projects = {}
    /\ status_records = {}
    /\ requests = NoRequests

NextDistricts ==
    \/ create_jurisdiction
    \/ \E jurisdiction_id \in JurisdictionIds : delete_jurisdiction(jurisdiction_id)
    \/ \E jurisdiction_id \in JurisdictionIds, code \in Codes \cup {NULL} :
          DistrictService_create_district(jurisdiction_id, code)
    \/ \E district_id \in DistrictIds, jurisdiction_id \in JurisdictionIds,
          code \in Codes \cup {NULL, UNSET} :
          DistrictService_update_district(district_id, jurisdiction_id, code)
    \/ \E district_id \in DistrictIds : DistrictService_delete_district(district_id)
    \/ \E jurisdiction_id \in JurisdictionIds, district_id \in DistrictIds :
          EntityService_create_entity(jurisdiction_id, district_id)
    \/ \E entity_id \in EntityIds, jurisdiction_id \in JurisdictionIds,
          district_id \in DistrictIds :
          EntityService_update_entity(entity_id, jurisdiction_id, district_id)
    \/ \E entity_id \in EntityIds : delete_entity(entity_id)
    \/ \E data \in ImportData, jurisdiction_id \in JurisdictionIds :
          _import_from_tabular_data(data, jurisdiction_id)

SpecDistricts == InitDistricts /\ [][NextDistricts]_vars

\* C19: each stored entity's jurisdiction_id names an existing jurisdiction
\* and its district_id names an existing district of that jurisdiction.
C19_EntityReferencesResolve ==
    \A e \in entities :
        /\ e.jurisdiction_id \in jurisdictions
        /\ \E d \in districts :
              d.id = e.district_id /\ d.jurisdiction_id = e.jurisdiction_id

\* C20: no two districts of one jurisdiction have the same code.
C20_CodeUniquePerJurisdiction ==
    \A d1, d2 \in districts :
        (/\ d1.id # d2.id
         /\ d1.jurisdiction_id = d2.jurisdiction_id
         /\ d1.code # NULL)
        => d1.code # d2.code

\* ------------------------------------------------------------ C21

\* C21: the in-process containment query returns exactly the ids of the
\* stored rows whose boundary (a bare geometry, a Feature or a
\* FeatureCollection) has at least one geometry containing the point.
C21_ExactlyTheContainingRows ==
    \A c \in QueryCoordinates :
        point_in_jurisdictions(jurisdiction_boundaries, c[1], c[2]).value
            = {row.id : row \in {b \in jurisdiction_boundaries :
                                    BoundaryContains(b.boundary, Point(c[2], c[1]))}}

\* ------------------------------------------------------------ C22

\* C22: each geocode_address call invokes exactly one backend, once, chosen
\* by configuration alone: the commercial backend when an API key is
\* configured and the free backend otherwise; a failure is followed by no
\* other call.
C22_OneBackendByConfiguration ==
    \A slot \in Slots :
        requests[slot].op = "geocode_address"
        => requests[slot].calls =
               <<IF settings.GEOCODING_API_KEY # NULL
                 THEN "_geocode_commercial" ELSE "_geocode_nominatim">>

\* ------------------------------------------------------------ SpecReads

\* The number of provider calls of each kind a handler has made: get and
\* filter read the rows matching a key, filter_multiple the rows matching
\* its criteria, list the table (up to its limit).  entities_full and
\* records_full count the reads that returned every row of a table that
\* has rows.
NoReads ==
    [get |-> 0, filter |-> 0, filter_multiple |-> 0, list |-> 0,
     entities_full |-> 0, records_full |-> 0]

AddRead(reads, kind) == [reads EXCEPT ![kind] = @ + 1]

\* A read that returned the rows found, from the table given, counted as a
\* full read when it returned the whole table.
CountFull(reads, counter, found, table) ==
    IF table # {} /\ found = table THEN AddRead(reads, counter) ELSE reads

\* The provider calls of get_project_status_distribution(project_id,
\* project=project): the roster's filter, then the status records'
\* filter_multiple when the roster is not empty.
DistributionReads(reads, project) ==
    LET jurisdiction_entities == SQLProvider_filter(entities, project.jurisdiction_id)
        roster_read == CountFull(AddRead(reads, "filter"), "entities_full",
                                 jurisdiction_entities, entities)
    IN  IF jurisdiction_entities = {}
        THEN roster_read
        ELSE CountFull(AddRead(roster_read, "filter_multiple"), "records_full",
                       project_status_records(status_records, project.id,
                                              Ids(jurisdiction_entities)),
                       status_records)

\* project.status_distribution = ... with the session's object: the
\* attribute would be written to the project's row.
assign_status_distribution_Persisted(project_rows, project_id, distribution) ==
    {IF p.id = project_id
     THEN [id |-> p.id, jurisdiction_id |-> NULL] ELSE p : p \in project_rows}

\* project.status_distribution = ...: an attribute of the pydantic object
\* a read returned; the stored rows are what they were.
assign_status_distribution(project_rows, project_id, distribution) == project_rows

\* The loop of enrich_projects_with_status_distributions from project i of
\* the list on: the set of the ways it can end, each with the enriched
\* projects, the provider calls made and the project rows stored.
RECURSIVE enrich_from(_, _, _)
enrich_from(project_list, i, acc) ==
    IF i > Len(project_list) THEN {acc}
    ELSE LET project == Row(projects, project_list[i])
             reads == DistributionReads(acc.reads, project)
         IN  UNION {IF outcome.error # NULL
                    THEN {[acc EXCEPT !.error = outcome.error, !.reads = reads]}
                    ELSE enrich_from(project_list, i + 1,
                             [acc EXCEPT
                                 !.reads = reads,
                                 !.value = @ \cup {[id |-> project.id,
                                                    status_distribution |-> outcome.value]},
                                 !.stored = assign_status_distribution(
                                                @, project.id, outcome.value)]) :
                    outcome \in get_project_status_distribution(project.id)}

\* The lists of projects a caller can pass: stored projects, each once.
ProjectLists ==
    {list \in UNION {[1..n -> Ids(projects)] : n \in 0..MaxProjects} :
        \A i, k \in DOMAIN list : i # k => list[i] # list[k]}

\* ProjectService.enrich_projects_with_status_distributions(projects)
enrich_projects_with_status_distributions(slot, project_list) ==
    /\ requests[slot].op = "idle"
    /\ \E end \in enrich_from(project_list, 1,
                      [error |-> NULL, value |-> {}, reads |-> NoReads, stored |-> projects]) :
          /\ requests' = [requests EXCEPT ![slot] =
                 [op |-> "enrich_projects_with_status_distributions",
                  pc |-> IF end.error = NULL THEN "returned" ELSE "raised",
                  body |-> [projects |-> project_list], match |-> NULL,
                  reads |-> end.reads, response |-> end.value]]
          /\ projects' = end.stored
    /\ UNCHANGED <<settings, users, files, districts, boundaries, jurisdictions, entities, status_records>>

\* ProjectService.get_project_status_distribution(project_id): the project
\* is fetched first, and the empty distribution returned when it is missing.
call_get_project_status_distribution(slot, project_id) ==
    /\ requests[slot].op = "idle"
    /\ \E outcome \in get_project_status_distribution(project_id) :
          requests' = [requests EXCEPT ![slot] =
              [op |-> "get_project_status_distribution",
               pc |-> IF outcome.error = NULL THEN "returned" ELSE "raised",
               body |-> [project_id |-> project_id], match |-> NULL,
               reads |-> IF project_id \in Ids(projects)
                         THEN DistributionReads(AddRead(NoReads, "get"),
                                                Row(projects, project_id))
                         ELSE AddRead(NoReads, "get"),
               response |-> outcome.value]]
    /\ UNCHANGED <<settings, users, files, districts, boundaries, jurisdictions, entities,
                   projects, status_records>>

\* A roster of two entities in two districts of one jurisdiction, with
\* stored boundaries; the projects and the status records come and go.
InitReads ==
    /\ settings \in StoreSettings
    /\ users = {}
    /\ files = {}
    /\ jurisdictions = {IdPool("j")[1]}
    /\ districts = {[id |-> d, jurisdiction_id |-> IdPool("j")[1], code |-> d] : d \in DistrictIds}
    /\ boundaries = {[id |-> IdPool("j")[1], boundary |-> Feature(Square)],
                     [id |-> IdPool("d")[1], boundary |-> Feature(Square)],
                     [id |-> IdPool("d")[2], boundary |-> Feature(FarSquare)]}
    /\ entities = {[id |-> IdPool("e")[i], jurisdiction_id |-> IdPool("j")[1],
                    district_id |-> IdPool("d")[i]] : i \in 1..MaxEntities}
    /\ projects = {}
    /\ status_records = {}
    /\ requests = [slot \in Slots |-> IdleRequest]

NextReads ==
    \/ \E jurisdiction_id \in JurisdictionIds \cup {NULL} : create_project(jurisdiction_id)
    \/ \E req \in ReferenceRequests : create_status_record(req)
    \/ \E slot \in 1..MaxListCalls, project_id \in ProjectIds :
          call_get_project_status_distribution(slot, project_id)
    \/ \E slot \in 1..MaxListCalls, project_list \in ProjectLists :
          enrich_projects_with_status_distributions(slot, project_list)
    \/ \E slot \in 1..MaxListCalls, address \in Addresses : begin_lookup_entities_by_address(slot, address)
    \/ \E slot \in 1..MaxListCalls, reply \in NominatimReplies : entities_geocode_address(slot, reply)
    \/ \E slot \in 1..MaxListCalls : entities_districts_containing_point(slot)
    \/ \E slot \in 1..MaxListCalls, address \in Addresses : begin_lookup_representatives(slot, address)
    \/ \E slot \in 1..MaxListCalls, reply \in NominatimReplies : lookup_geocode_address(slot, reply)
    \/ \E slot \in 1..MaxListCalls : lookup_point_in_jurisdictions(slot)
    \/ \E slot \in 1..MaxListCalls : lookup_details(slot)

SpecReads == InitReads /\ [][NextReads]_vars

\* One of the four read operations takes a step in the slot.
ReadStep(slot) ==
    \/ \E project_id \in ProjectIds : call_get_project_status_distribution(slot, project_id)
    \/ \E project_list \in ProjectLists :
          enrich_projects_with_status_distributions(slot, project_list)
    \/ \E address \in Addresses : begin_lookup_entities_by_address(slot, address)
    \/ \E reply \in NominatimReplies : entities_geocode_address(slot, reply)
    \/ entities_districts_containing_point(slot)
    \/ \E address \in Addresses : begin_lookup_representatives(slot, address)
    \/ \E reply \in NominatimReplies : lookup_geocode_address(slot, reply)
    \/ lookup_point_in_jurisdictions(slot)
    \/ lookup_details(slot)

\* C23: get_project_status_distribution, enrich_projects_with_status_
\* distributions, lookup_entities_by_address and lookup_representatives
\* leave the stored projects, entities, districts, jurisdictions and status
\* records unchanged.
C23_ReadsLeaveStoresUnchanged ==
    [][(\E slot \in Slots : ReadStep(slot))
       => UNCHANGED <<projects, entities, districts, jurisdictions, status_records>>]_vars

C23_Witness ==
    \E slot \in Slots :
        /\ requests[slot].op = "enrich_projects_with_status_distributions"
        /\ requests[slot].pc = "returned"
        /\ Len(requests[slot].body.projects) = MaxProjects
        /\ \E enriched \in requests[slot].response :
              /\ enriched.status_distribution.total = MaxEntities
              /\ enriched.status_distribution.neutral < MaxEntities
        /\ \A project_id \in ProjectIds :
              \E p \in projects : p.id = project_id /\ p.jurisdiction_id # NULL

\* C24: enrich_projects_with_status_distributions on a list of k projects
\* reads the full entity table and the full status-record table a number
\* of times that does not grow with k: at most once each.
C24_FullReadsDoNotGrow ==
    \A slot \in Slots :
        requests[slot].op = "enrich_projects_with_status_distributions"
        => /\ requests[slot].reads.entities_full <= 1
           /\ requests[slot].reads.records_full <= 1
           /\ requests[slot].reads.list <= 1

\* ------------------------------------------------------------ SpecStartup

DB_INIT_LOCK_FILE == "/tmp/open_advocacy_db_initialized"

\* INITIAL_ADMIN_EMAIL, and the address check_super_admin_exists looks up.
ADMIN_EMAIL == "matt@example.com"

SUPER_ADMIN == "super_admin"

\* The application instances that start against one database and one file
\* system.
Instances == 1..MaxInstances

\* check_super_admin_exists: a user with the admin's address and the
\* super_admin role is stored.
check_super_admin_exists ==
    \E u \in users : u.email = ADMIN_EMAIL /\ u.role = SUPER_ADMIN

\* startup_event begins in an instance: up to the await of the check.
begin_startup_event(instance) ==
    /\ requests[instance].op = "idle"
    /\ requests' = [requests EXCEPT ![instance] =
           [op |-> "startup_event", pc |-> "check_super_admin_exists",
            body |-> <<>>, match |-> NULL,
            admin_at_start |-> check_super_admin_exists, initialized |-> 0]]
    /\ UNCHANGED <<settings, users, files, districts, boundaries, jurisdictions,
                   entities, projects, status_records>>

\* admin_exists = await check_super_admin_exists(): return when it is True.
startup_check_super_admin(instance) ==
    /\ requests[instance].op = "startup_event"
    /\ requests[instance].pc = "check_super_admin_exists"
    /\ requests' = [requests EXCEPT ![instance].pc =
           IF check_super_admin_exists THEN "returned" ELSE "os.path.exists"]
    /\ UNCHANGED <<settings, users, files, districts, boundaries, jurisdictions,
                   entities, projects, status_records>>

\* if os.path.exists(DB_INIT_LOCK_FILE): return
startup_lock_file_exists(instance) ==
    /\ requests[instance].op = "startup_event"
    /\ requests[instance].pc = "os.path.exists"
    /\ requests' = [requests EXCEPT ![instance].pc =
           IF DB_INIT_LOCK_FILE \in files THEN "returned" ELSE "open"]
    /\ UNCHANGED <<settings, users, files, districts, boundaries, jurisdictions,
                   entities, projects, status_records>>

\* with open(DB_INIT_LOCK_FILE, "w"): the file is created, or truncated
\* when it exists already.
startup_write_lock_file(instance) ==
    /\ requests[instance].op = "startup_event"
    /\ requests[instance].pc = "open"
    /\ files' = files \cup {DB_INIT_LOCK_FILE}
    /\ requests' = [requests EXCEPT ![instance].pc = "init_db"]
    /\ UNCHANGED <<settings, users, districts, boundaries, jurisdictions,
                   entities, projects, status_records>>

\* await init_db(create_tables=True, drop_existing=True): every table is
\* dropped and created again, empty.
startup_init_db(instance) ==
    /\ requests[instance].op = "startup_event"
    /\ requests[instance].pc = "init_db"
    /\ users' = {}
    /\ jurisdictions' = {}
    /\ districts' = {}
    /\ boundaries' = {}
    /\ entities' = {}
    /\ projects' = {}
    /\ status_records' = {}
    /\ requests' = [requests EXCEPT ![instance].pc = "create_initial_super_admin",
                                    ![instance].initialized = @ + 1]
    /\ UNCHANGED <<settings, files>>

\* await create_initial_super_admin(): the admin is created unless a user
\* with its address exists.
startup_create_initial_super_admin(instance) ==
    /\ requests[instance].op = "startup_event"
    /\ requests[instance].pc = "create_initial_super_admin"
    /\ users' = IF \E u \in users : u.email = ADMIN_EMAIL
                THEN users
                ELSE users \cup {[id |-> "u1", email |-> ADMIN_EMAIL,
                                  role |-> SUPER_ADMIN, group_id |-> "g1"]}
    /\ requests' = [requests EXCEPT ![instance].pc = "import_data"]
    /\ UNCHANGED <<settings, files, districts, boundaries, jurisdictions,
                   entities, projects, status_records>>

\* The imports of steps 3 to 5: jurisdictions and projects are created for
\* the locations (a failed import is logged and startup goes on).
startup_import_data(instance) ==
    /\ requests[instance].op = "startup_event"
    /\ requests[instance].pc = "import_data"
    /\ \E imported \in SUBSET JurisdictionIds :
          /\ jurisdictions' = jurisdictions \cup imported
          /\ projects' = projects \cup
                {[id |-> IdPool("p")[1], jurisdiction_id |-> j] :
                     j \in imported \cap {IdPool("j")[1]}}
    /\ requests' = [requests EXCEPT ![instance].pc = "returned"]
    /\ UNCHANGED <<settings, users, files, districts, boundaries, entities,
                   status_records>>

InitStartup ==
    /\ settings \in StoreSettings
    /\ users = {}
    /\ files = {}
    /\ jurisdictions = {}
    /\ districts = {}
    /\ boundaries = {}
    /\ entities = {}
    /\ projects = {}
    /\ status_records = {}
    /\ requests = [instance \in Instances |-> IdleRequest]

NextStartup ==
    \E instance \in Instances :
        \/ begin_startup_event(instance)
        \/ startup_check_super_admin(instance)
        \/ startup_lock_file_exists(instance)
        \/ startup_write_lock_file(instance)
        \/ startup_init_db(instance)
        \/ startup_create_initial_super_admin(instance)
        \/ startup_import_data(instance)

SpecStartup == InitStartup /\ [][NextStartup]_vars

\* C25: of the instances that run startup_event against one database and
\* one lock file, at most one executes the initialization sequence, and no
\* instance that began when a super admin existed executes it.
C25_InitializationRunsOnce ==
    /\ Cardinality({instance \in Instances :
                       /\ requests[instance].op = "startup_event"
                       /\ requests[instance].initialized > 0}) <= 1
    /\ \A instance \in Instances :
          (/\ requests[instance].op = "startup_event"
           /\ requests[instance].admin_at_start)
          => requests[instance].initialized = 0

\* ------------------------------------------------------------ SpecImport

\* The names of a location's import steps, by position.
StepNames == [i \in 1..MaxSteps |-> IdPool("s")[i]]

\* The importers and data sources get_importers() returns for the location.
Importers == {"jurisdiction_importer"}
DataSources == {"wards_geojson"}

\* The steps a LocationConfig can declare: the importer and the data source
\* keys may be absent (NULL) or name nothing that get_importers() returned.
ImportSteps(i) ==
    [name : {StepNames[i]},
     importer : Importers \cup {NULL, "no_such_importer"},
     data_source : DataSources \cup {NULL, "no_such_source"}]

StepLists ==
    UNION {{steps \in [1..n -> UNION {ImportSteps(i) : i \in 1..MaxSteps}] :
               \A i \in 1..n : steps[i] \in ImportSteps(i)} : n \in 0..MaxSteps}

\* The "<step name>.skip" keys of kwargs that are set to a true value.
SkipKwargs == SUBSET {StepNames[i] : i \in 1..MaxSteps}

\* What the collaborators of a step do when they are called:
\* data_source.fetch_data(), importer.validate_import(), importer.import_data().
FetchOutcomes == {"data", "raises"}
ValidateOutcomes == {"True", "False", "raises"}
ImportOutcomes == {"result", "raises"}

ErrorEntry(step, message) ==
    [step |-> step.name, status |-> "error", message |-> message]

\* One pass of the loop body of import_location with a defect: a step with
\* an invalid importer is passed over without an entry in results.
run_step_SilentInvalidImporter(step, skip, fetch, validate, import) ==
    IF step.name \in skip
    THEN <<>>
    ELSE IF step.importer = NULL \/ step.importer \notin Importers
    THEN <<>>
    ELSE IF step.data_source # NULL /\ step.data_source \notin DataSources
    THEN <<ErrorEntry(step, "Invalid data source")>>
    ELSE IF step.data_source # NULL /\ fetch = "raises"
    THEN <<ErrorEntry(step, "Data fetch error")>>
    ELSE IF validate = "raises"
    THEN <<ErrorEntry(step, "Import error")>>
    ELSE IF validate = "False"
    THEN <<ErrorEntry(step, "Validation failed")>>
    ELSE IF import = "raises"
    THEN <<ErrorEntry(step, "Import error")>>
    ELSE <<[step |-> step.name, status |-> "success", message |-> NULL]>>

\* One pass of the loop body of import_location: the entries it appends to
\* results (none when the step is skipped).
run_step(step, skip, fetch, validate, import) ==
    IF step.name \in skip
    THEN <<>>                                      \* continue
    ELSE IF step.importer = NULL \/ step.importer \notin Importers
    THEN <<ErrorEntry(step, "Invalid importer")>>
    ELSE IF step.data_source # NULL /\ step.data_source \notin DataSources
    THEN <<ErrorEntry(step, "Invalid data source")>>
    ELSE IF step.data_source # NULL /\ fetch = "raises"
    THEN <<ErrorEntry(step, "Data fetch error")>>
    ELSE IF validate = "raises"
    THEN <<ErrorEntry(step, "Import error")>>
    ELSE IF validate = "False"
    THEN <<ErrorEntry(step, "Validation failed")>>
    ELSE IF import = "raises"
    THEN <<ErrorEntry(step, "Import error")>>
    ELSE <<[step |-> step.name, status |-> "success", message |-> NULL]>>

\* import_location is called: the location is looked up and its steps and
\* importers are read.
begin_import_location(slot, location_key, steps, skip) ==
    /\ requests[slot].op = "idle"
    /\ requests' = [requests EXCEPT ![slot] =
           [op |-> "import_location",
            pc |-> IF location_key = "chicago" THEN "for" ELSE "raised",
            body |-> <<>>, match |-> NULL,
            import_steps |-> steps, kwargs |-> skip,
            next |-> 1, started |-> <<>>, results |-> <<>>, return |-> NULL]]
    /\ UNCHANGED <<settings, users, files, districts, boundaries, jurisdictions,
                   entities, projects, status_records>>

\* for step in location_config.import_steps: one pass of the loop.
import_location_step(slot) ==
    /\ requests[slot].op = "import_location"
    /\ requests[slot].pc = "for"
    /\ requests[slot].next <= Len(requests[slot].import_steps)
    /\ \E fetch \in FetchOutcomes, validate \in ValidateOutcomes,
          import \in ImportOutcomes :
          LET step == requests[slot].import_steps[requests[slot].next]
          IN  requests' = [requests EXCEPT
                  ![slot].next = @ + 1,
                  ![slot].started = Append(@, step.name),
                  ![slot].results =
                      @ \o run_step(step, requests[slot].kwargs,
                                    fetch, validate, import)]
    /\ UNCHANGED <<settings, users, files, districts, boundaries, jurisdictions,
                   entities, projects, status_records>>

WithStatus(results, status) ==
    Len(SelectSeq(results, LAMBDA r : r.status = status))

\* The loop is exhausted: return the summary.
import_location_return(slot) ==
    /\ requests[slot].op = "import_location"
    /\ requests[slot].pc = "for"
    /\ requests[slot].next > Len(requests[slot].import_steps)
    /\ requests' = [requests EXCEPT
           ![slot].pc = "returned",
           ![slot].return =
               [location |-> "chicago",
                steps_total |-> Len(requests[slot].import_steps),
                steps_succeeded |-> WithStatus(requests[slot].results, "success"),
                steps_failed |-> WithStatus(requests[slot].results, "error"),
                results |-> requests[slot].results]]
    /\ UNCHANGED <<settings, users, files, districts, boundaries, jurisdictions,
                   entities, projects, status_records>>

InitImport ==
    /\ settings \in StoreSettings
    /\ users = {}
    /\ files = {}
    /\ jurisdictions = {}
    /\ districts = {}
    /\ boundaries = {}
    /\ entities = {}
    /\ projects = {}
    /\ status_records = {}
    /\ requests = [slot \in Slots |-> IdleRequest]

NextImport ==
    \E slot \in 1..MaxListCalls :
        \/ \E location_key \in {"chicago", "atlantis"}, steps \in StepLists,
              skip \in SkipKwargs :
              begin_import_location(slot, location_key, steps, skip)
        \/ import_location_step(slot)
        \/ import_location_return(slot)

SpecImport == InitImport /\ [][NextImport]_vars

\* The names of the declared steps that kwargs does not skip, in order.
NotSkipped(request) ==
    SelectSeq([i \in 1..Len(request.import_steps) |-> request.import_steps[i].name],
              LAMBDA name : name \notin request.kwargs)

\* C28: import_location starts the steps in their declared order, whatever
\* the earlier steps did; every step that is not skipped has exactly one
\* entry in results, in that order; and steps_succeeded + steps_failed is
\* steps_total minus the number of skipped steps.
C28_EveryStepRunsAndIsCounted ==
    \A slot \in Slots :
        requests[slot].op = "import_location"
        => LET request == requests[slot]
           IN  /\ \A i \in 1..Len(request.started) :
                     request.started[i] = request.import_steps[i].name
               /\ request.pc = "returned"
                  => /\ Len(request.started) = Len(request.import_steps)
                     /\ [i \in 1..Len(request.results) |-> request.results[i].step]
                            = NotSkipped(request)
                     /\ request.return.steps_succeeded + request.return.steps_failed
                            = request.return.steps_total
                              - (Len(request.import_steps) - Len(NotSkipped(request)))

\* An import of two steps has returned whose first step failed and whose
\* second step succeeded.
C28_Witness ==
    \E slot \in Slots :
        /\ requests[slot].op = "import_location"
        /\ requests[slot].pc = "returned"
        /\ Len(requests[slot].results) = 2
        /\ requests[slot].results[1].status = "error"
        /\ requests[slot].results[2].status = "success"

\* ------------------------------------------------------------ SpecDistrictImport

\* What _import_from_tabular_data has in hand while it runs: the districts
\* table, its parameters created_count, updated_count and error_count, and
\* the length of the districts list it shares with its caller.
ImportLocals(rows) ==
    [rows |-> rows, created_count |-> 0, updated_count |-> 0,
     error_count |-> 0, districts |-> 0]

\* The loop of _import_from_tabular_data from item i on, with its counters:
\* the table it leaves is that of import_items.
RECURSIVE tabular_loop(_, _, _, _, _)
tabular_loop(locals, data, i, existing_codes, jurisdiction_id) ==
    IF i > Len(data) THEN locals
    ELSE IF data[i] \in existing_codes
    THEN tabular_loop([locals EXCEPT !.updated_count = @ + 1, !.districts = @ + 1],
                      data, i + 1, existing_codes, jurisdiction_id)
    ELSE IF jurisdiction_id \notin jurisdictions
              \/ uuid4("d", Ids(locals.rows), MaxDistricts) = {}
    THEN tabular_loop([locals EXCEPT !.error_count = @ + 1],
                      data, i + 1, existing_codes, jurisdiction_id)
    ELSE tabular_loop(
             [locals EXCEPT
                 !.rows = @ \cup
                     {[id |-> CHOOSE id \in uuid4("d", Ids(locals.rows), MaxDistricts) : TRUE,
                       jurisdiction_id |-> jurisdiction_id, code |-> data[i]]},
                 !.created_count = @ + 1,
                 !.districts = @ + 1],
             data, i + 1, existing_codes, jurisdiction_id)

\* The value of an int argument in the caller after the callee has
\* incremented its parameter: an int is immutable and the parameter is a
\* name of the callee, so the caller's variable keeps its value.
int_after_call(before, in_callee) == before

\* DistrictImporter.import_data with tabular data: the jurisdiction is
\* looked up (ValueError when it is not found), the rows are imported and
\* the summary is built from the locals of import_data.  did is what the
\* call did, as counted inside _import_from_tabular_data.
import_data(slot, jurisdiction_id, data) ==
    /\ requests[slot].op = "idle"
    /\ IF jurisdiction_id \notin jurisdictions
       THEN /\ requests' = [requests EXCEPT ![slot] =
                   [op |-> "import_data", pc |-> "raised", body |-> data,
                    match |-> NULL]]
            /\ UNCHANGED districts
       ELSE LET done == tabular_loop(
                            ImportLocals(districts), data, 1,
                            {d.code : d \in {x \in districts :
                                                x.jurisdiction_id = jurisdiction_id}},
                            jurisdiction_id)
            IN  /\ districts' = done.rows
                /\ requests' = [requests EXCEPT ![slot] =
                       [op |-> "import_data", pc |-> "returned", body |-> data,
                        match |-> NULL,
                        did |-> [created |-> Cardinality(done.rows \ districts),
                                 updated |-> done.updated_count,
                                 failed |-> done.error_count],
                        return |->
                            [districts_created |-> int_after_call(0, done.created_count),
                             districts_updated |-> int_after_call(0, done.updated_count),
                             districts_error |-> int_after_call(0, done.error_count),
                             districts_total |-> done.districts]]]
    /\ UNCHANGED <<settings, users, files, boundaries, jurisdictions, entities,
                   projects, status_records>>

InitDistrictImport ==
    /\ settings \in StoreSettings
    /\ users = {}
    /\ files = {}
    /\ jurisdictions = {IdPool("j")[1]}
    /\ districts = {}
    /\ boundaries = {}
    /\ entities = {}
    /\ projects = {}
    /\ status_records = {}
    /\ requests = [slot \in Slots |-> IdleRequest]

NextDistrictImport ==
    \/ \E slot \in Slots, jurisdiction_id \in JurisdictionIds, data \in ImportData :
          import_data(slot, jurisdiction_id, data)
    \/ \E jurisdiction_id \in JurisdictionIds, code \in Codes :
          DistrictService_create_district(jurisdiction_id, code)
    \/ \E district_id \in DistrictIds : DistrictService_delete_district(district_id)

SpecDistrictImport == InitDistrictImport /\ [][NextDistrictImport]_vars

\* C29: the summary import_data returns reports what the call did:
\* districts_created, districts_updated and districts_error are the numbers
\* of districts it created, updated and failed on, and districts_created +
\* districts_updated is districts_total.
C29_SummaryReportsTheImport ==
    \A slot \in Slots :
        (requests[slot].op = "import_data" /\ requests[slot].pc = "returned")
        => /\ requests[slot].return.districts_created = requests[slot].did.created
           /\ requests[slot].return.districts_updated = requests[slot].did.updated
           /\ requests[slot].return.districts_error = requests[slot].did.failed
           /\ requests[slot].return.districts_created
                + requests[slot].return.districts_updated
                = requests[slot].return.districts_total

\* ------------------------------------------------------------ SpecUsers

\* UserRole: the values of the role column.
UserRole == {"super_admin", "group_admin", "editor", "viewer"}

GROUP_ADMIN == "group_admin"

\* The role strings a client sends in RoleUpdate: two roles and a string
\* that is no role.
RoleInputs == {"super_admin", "editor", "owner"}

UserIds == {IdPool("u")[i] : i \in 1..MaxUsers}

\* The ids a client can put in the path: the stored users and one more.
UserIdInputs == UserIds \cup {IdPool("u")[MaxUsers + 1]}

\* get_current_user and get_group_admin_user: the caller's row is read, and
\* the request goes on when the caller is a super admin or a group admin.
get_group_admin_user(caller_id) ==
    IF caller_id \notin Ids(users)
    THEN Raised("401")
    ELSE IF Row(users, caller_id).role \notin {SUPER_ADMIN, GROUP_ADMIN}
    THEN Raised("403")
    ELSE Returned(Row(users, caller_id))

\* The permission checks of the update_user_role route on the rows it holds.
role_update_forbidden(current_user, user_to_update, new_role) ==
    IF current_user.role = SUPER_ADMIN
    THEN user_to_update.role = SUPER_ADMIN /\ current_user.id # user_to_update.id
    ELSE \/ user_to_update.group_id # current_user.group_id
         \/ user_to_update.role = SUPER_ADMIN
         \/ new_role = SUPER_ADMIN
         \/ user_to_update.id = current_user.id

\* UserService.update_user_role: the role of the user's row is set.
UserService_update_user_role(rows, user_id, new_role) ==
    {IF u.id = user_id THEN [u EXCEPT !.role = new_role] ELSE u : u \in rows}

\* PATCH /admin/users/{user_id}/role arrives: the dependencies load the
\* caller (401, 403) and the role string is converted (400).
begin_update_user_role(slot, caller_id, user_id, role) ==
    /\ requests[slot].op = "idle"
    /\ LET current_user == get_group_admin_user(caller_id)
       IN  IF current_user.error # NULL \/ role \notin UserRole
           THEN UNCHANGED requests
           ELSE requests' = [requests EXCEPT ![slot] =
                    [op |-> "update_user_role", pc |-> "get_user",
                     body |-> <<>>, match |-> NULL,
                     current_user |-> current_user.value,
                     user_id |-> user_id, new_role |-> role]]
    /\ UNCHANGED <<settings, users, files, districts, boundaries, jurisdictions,
                   entities, projects, status_records>>

\* user_to_update = await user_service.get_user(user_id), and the checks
\* that follow it (404, 403).
role_get_user(slot) ==
    /\ requests[slot].op = "update_user_role"
    /\ requests[slot].pc = "get_user"
    /\ requests' = [requests EXCEPT ![slot] =
           IF requests[slot].user_id \notin Ids(users)
           THEN IdleRequest
           ELSE IF role_update_forbidden(requests[slot].current_user,
                                         Row(users, requests[slot].user_id),
                                         requests[slot].new_role)
           THEN IdleRequest
           ELSE [@ EXCEPT !.pc = "update_user_role"]]
    /\ UNCHANGED <<settings, users, files, districts, boundaries, jurisdictions,
                   entities, projects, status_records>>

\* updated_user = await user_service.update_user_role(user_id, new_role)
role_update_user_role(slot) ==
    /\ requests[slot].op = "update_user_role"
    /\ requests[slot].pc = "update_user_role"
    /\ users' = UserService_update_user_role(users, requests[slot].user_id,
                                             requests[slot].new_role)
    /\ requests' = [requests EXCEPT ![slot] = IdleRequest]
    /\ UNCHANGED <<settings, files, districts, boundaries, jurisdictions,
                   entities, projects, status_records>>

\* The users when the requests arrive: a super admin, and a group admin and
\* an editor of another group.
InitUsers ==
    /\ settings \in StoreSettings
    /\ users = {[id |-> IdPool("u")[1], email |-> ADMIN_EMAIL,
                 role |-> SUPER_ADMIN, group_id |-> "g2"],
                [id |-> IdPool("u")[2], email |-> "u2@example.com",
                 role |-> GROUP_ADMIN, group_id |-> "g1"],
                [id |-> IdPool("u")[3], email |-> "u3@example.com",
                 role |-> "editor", group_id |-> "g1"]}
    /\ files = {}
    /\ jurisdictions = {}
    /\ districts = {}
    /\ boundaries = {}
    /\ entities = {}
    /\ projects = {}
    /\ status_records = {}
    /\ requests = [slot \in Slots |-> IdleRequest]

NextUsers ==
    \E slot \in Slots :
        \/ \E caller_id \in UserIds, user_id \in UserIdInputs, role \in RoleInputs :
              begin_update_user_role(slot, caller_id, user_id, role)
        \/ role_get_user(slot)
        \/ role_update_user_role(slot)

SpecUsers == InitUsers /\ [][NextUsers]_vars

SuperAdmins(rows) == {u.id : u \in {x \in rows : x.role = SUPER_ADMIN}}

\* C30: the write of an update_user_role call whose caller is not a super
\* admin (when it was authenticated and when it writes) leaves the set of
\* super admins, the roles of the users of other groups and the caller's
\* own role as they are; the write of a call whose caller is a super admin
\* leaves the role of every other super admin as it is.
C30_RoleUpdatesStayWithinPermissions ==
    [][\A slot \in Slots :
          role_update_user_role(slot)
          => LET caller == requests[slot].current_user
             IN  /\ (/\ caller.role # SUPER_ADMIN
                     /\ Row(users, caller.id).role # SUPER_ADMIN)
                    => /\ SuperAdmins(users') = SuperAdmins(users)
                       /\ \A u \in users :
                             (u.group_id # caller.group_id \/ u.id = caller.id)
                             => Row(users', u.id).role = u.role
                 /\ (/\ caller.role = SUPER_ADMIN
                     /\ Row(users, caller.id).role = SUPER_ADMIN)
                    => \A u \in users :
                          (u.role = SUPER_ADMIN /\ u.id # caller.id)
                          => Row(users', u.id).role = u.role]_vars

====
